---- MODULE Spec2Model ----
(***************************************************************************)
(* Verification model of the inventory catalog core:                       *)
(*   inv::HashTable<T>  (Headers/HashTable.hpp, lines 573-770 of the       *)
(*   concatenated header src/Headers/Parser.hpp).                          *)
(*   inv::detail tokenizer and sanitizers, inv::loadCsv (lines 34-495).    *)
(* The table is modelled as the code stores it: a vector of chains, each   *)
(* chain an ordered list of nodes (key, value), plus the entry counter.    *)
(* A std::string is a sequence of one-character strings.                   *)
(***************************************************************************)
EXTENDS Integers, Sequences, FiniteSets, TLC

(***************************************************************************)
(* Bounds of the model.                                                    *)
(***************************************************************************)
NumKeys == 3
MaxHash == 2
MaxInitBuckets == 2
DenseBuckets == 10

(***************************************************************************)
(* Inputs: keys as the tests build them ("k" + to_string(i)), and the two   *)
(* int values of the insert/update test.  The table never inspects a       *)
(* value, so two distinct ones tell an overwrite from a kept value.        *)
(***************************************************************************)
KeyPool ==
  <<"k0", "k1", "k2", "k3", "k4", "k5", "k6", "k7", "k8", "k9", "k10", "k11">>

Keys == {KeyPool[i] : i \in 1..NumKeys}

DenseKeys == {KeyPool[i] : i \in 1..DenseBuckets}

Values == {1, 11}

(***************************************************************************)
(* Program constants.  kMaxLoadFactor = 0.9 is kept as the exact ratio     *)
(* 9/10; for the table sizes of the model the double comparison            *)
(* size/buckets > 0.9 agrees with 10 * size > 9 * buckets (the quotient    *)
(* 9/10 rounds to the same double as the literal 0.9).                     *)
(***************************************************************************)
kMaxLoadFactorNum == 9
kMaxLoadFactorDen == 10

VARIABLES
  buckets_,   \* std::vector<std::list<Node>>: sequence of chains
  size_,      \* number of stored entries
  hash,       \* std::hash<std::string> restricted to the keys in use
  fault,      \* TRUE once the process has trapped (hash % 0)
  last,       \* the last call and what it returned
  hist,       \* per key: <<v>> if the last insert/erase on it was insert(k, v),
              \* << >> if it was erase(k) or there was none
  erased,     \* TRUE once erase has been called
  fn,         \* the parser function or loader in progress ("none": none)
  arg,        \* its argument
  loc,        \* its local variables
  out,        \* << >> while it runs, <<r>> once it has returned r
  seen,       \* what the run has met so far, kept for the properties
  categoryIndex  \* unordered_map<string, vector<string>>: category -> ids

tableVars == <<buckets_, size_, hash, fault, last, hist, erased>>

textVars == <<fn, arg, loc, out, seen, categoryIndex>>

vars == <<buckets_, size_, hash, fault, last, hist, erased,
          fn, arg, loc, out, seen, categoryIndex>>

Node(key, value) == [key |-> key, value |-> value]

(***************************************************************************)
(* Observers.                                                              *)
(***************************************************************************)
size == size_

bucketCount == Len(buckets_)

\* mutant: the threshold taken as 1.0
loadFactorExceeds_one(sz, nb) ==
  IF nb = 0 THEN FALSE ELSE sz * kMaxLoadFactorDen > kMaxLoadFactorDen * nb

\* mutant: >= in place of >
loadFactorExceeds_geq(sz, nb) ==
  IF nb = 0 THEN FALSE ELSE sz * kMaxLoadFactorDen >= kMaxLoadFactorNum * nb

\* loadFactor() > kMaxLoadFactor, for sz entries in nb buckets
\* (loadFactor() is 0.0 for an empty bucket vector).
loadFactorExceeds(sz, nb) ==
  IF nb = 0 THEN FALSE ELSE sz * kMaxLoadFactorDen > kMaxLoadFactorNum * nb

\* hash(key) % buckets_.size(), as a 1-based position in the sequence
indexFor(h, key, nb) == (h[key] % nb) + 1

\* position of the first node of the chain that carries the key, 0 if none
RECURSIVE chainPos(_, _, _)
chainPos(chain, key, i) ==
  IF i > Len(chain) THEN 0
  ELSE IF chain[i].key = key THEN i
  ELSE chainPos(chain, key, i + 1)

\* bucket.erase(it): the chain without its node at position p
chainErase(chain, p) ==
  [j \in 1..(Len(chain) - 1) |-> IF j < p THEN chain[j] ELSE chain[j + 1]]

\* all nodes in the order rehash visits them: bucket by bucket, front to back
RECURSIVE allNodes(_, _)
allNodes(bs, i) ==
  IF i > Len(bs) THEN << >> ELSE bs[i] \o allNodes(bs, i + 1)

\* push every node, in order, to the back of its chain in newBuckets
RECURSIVE placeNodes(_, _, _, _)
placeNodes(nodes, i, h, newBuckets) ==
  IF i > Len(nodes) THEN newBuckets
  ELSE LET idx == indexFor(h, nodes[i].key, Len(newBuckets))
       IN  placeNodes(nodes, i + 1, h,
                      [newBuckets EXCEPT ![idx] = Append(@, nodes[i])])

\* mutant: the index taken modulo the old bucket count
rehash_oldCount(bs, h, newBucketCount) ==
  LET place(acc, n) ==
        [acc EXCEPT ![indexFor(h, n.key, Len(bs))] = Append(@, n)]
      nodes == allNodes(bs, 1)
      F[i \in 0..Len(nodes)] ==
        IF i = 0 THEN [j \in 1..newBucketCount |-> << >>]
        ELSE place(F[i - 1], nodes[i])
  IN  F[Len(nodes)]

\* mutant: every node is moved to the first bucket of the new array
rehash_firstBucket(bs, h, newBucketCount) ==
  [j \in 1..newBucketCount |-> IF j = 1 THEN allNodes(bs, 1) ELSE << >>]

rehash(bs, h, newBucketCount) ==
  placeNodes(allNodes(bs, 1), 1, h, [j \in 1..newBucketCount |-> << >>])

\* the argument insert passes to rehash
growTarget(nb) == nb * 2 + 1

\* mutant: only the front node of the chain is compared
findIn_firstOnly(bs, h, key) ==
  LET chain == bs[indexFor(h, key, Len(bs))]
  IN  IF Len(chain) > 0 /\ chain[1].key = key
      THEN <<chain[1].value>> ELSE << >>

\* find: << >> stands for nullptr, <<v>> for a pointer to the stored v
findIn(bs, h, key) ==
  LET chain == bs[indexFor(h, key, Len(bs))]
      p == chainPos(chain, key, 1)
  IN  IF p = 0 THEN << >> ELSE <<chain[p].value>>

\* mutant: an update reports a new insertion
insertIn_retTrue(bs, sz, h, key, value) ==
  LET i == indexFor(h, key, Len(bs))
      p == chainPos(bs[i], key, 1)
  IN  IF p # 0
      THEN [buckets |-> [bs EXCEPT ![i][p].value = value],
            size |-> sz, ret |-> TRUE]
      ELSE LET pushed == [bs EXCEPT ![i] = Append(@, Node(key, value))]
               grown == IF loadFactorExceeds(sz + 1, Len(pushed))
                        THEN rehash(pushed, h, growTarget(Len(pushed)))
                        ELSE pushed
           IN  [buckets |-> grown, size |-> sz + 1, ret |-> TRUE]

\* mutant: an update counts as a new entry
insertIn_countsUpdate(bs, sz, h, key, value) ==
  LET i == indexFor(h, key, Len(bs))
      p == chainPos(bs[i], key, 1)
  IN  IF p # 0
      THEN [buckets |-> [bs EXCEPT ![i][p].value = value],
            size |-> sz + 1, ret |-> FALSE]
      ELSE LET pushed == [bs EXCEPT ![i] = Append(@, Node(key, value))]
               grown == IF loadFactorExceeds(sz + 1, Len(pushed))
                        THEN rehash(pushed, h, growTarget(Len(pushed)))
                        ELSE pushed
           IN  [buckets |-> grown, size |-> sz + 1, ret |-> TRUE]

\* mutant: an update keeps the stored value
insertIn_keepOld(bs, sz, h, key, value) ==
  LET i == indexFor(h, key, Len(bs))
      p == chainPos(bs[i], key, 1)
  IN  IF p # 0
      THEN [buckets |-> bs, size |-> sz, ret |-> FALSE]
      ELSE LET pushed == [bs EXCEPT ![i] = Append(@, Node(key, value))]
               grown == IF loadFactorExceeds(sz + 1, Len(pushed))
                        THEN rehash(pushed, h, growTarget(Len(pushed)))
                        ELSE pushed
           IN  [buckets |-> grown, size |-> sz + 1, ret |-> TRUE]

\* insert: the table after the call and the value returned
insertIn(bs, sz, h, key, value) ==
  LET i == indexFor(h, key, Len(bs))
      p == chainPos(bs[i], key, 1)
  IN  IF p # 0
      THEN [buckets |-> [bs EXCEPT ![i][p].value = value],
            size |-> sz, ret |-> FALSE]
      ELSE LET pushed == [bs EXCEPT ![i] = Append(@, Node(key, value))]
               grown == IF loadFactorExceeds(sz + 1, Len(pushed))
                        THEN rehash(pushed, h, growTarget(Len(pushed)))
                        ELSE pushed
           IN  [buckets |-> grown, size |-> sz + 1, ret |-> TRUE]

\* mutant: the node stays in its chain
eraseIn_keepNode(bs, sz, h, key) ==
  LET i == indexFor(h, key, Len(bs))
      p == chainPos(bs[i], key, 1)
  IN  IF p # 0
      THEN [buckets |-> bs, size |-> sz - 1, ret |-> TRUE]
      ELSE [buckets |-> bs, size |-> sz, ret |-> FALSE]

\* mutant: the entry counter is not decremented
eraseIn_keepSize(bs, sz, h, key) ==
  LET i == indexFor(h, key, Len(bs))
      p == chainPos(bs[i], key, 1)
  IN  IF p # 0
      THEN [buckets |-> [bs EXCEPT ![i] = chainErase(@, p)],
            size |-> sz, ret |-> TRUE]
      ELSE [buckets |-> bs, size |-> sz, ret |-> FALSE]

\* mutant: a missing key is reported as erased
eraseIn_retTrue(bs, sz, h, key) ==
  LET i == indexFor(h, key, Len(bs))
      p == chainPos(bs[i], key, 1)
  IN  IF p # 0
      THEN [buckets |-> [bs EXCEPT ![i] = chainErase(@, p)],
            size |-> sz - 1, ret |-> TRUE]
      ELSE [buckets |-> bs, size |-> sz, ret |-> TRUE]

\* mutant: erasing the last entry shrinks the table to one bucket
eraseIn_shrinks(bs, sz, h, key) ==
  LET i == indexFor(h, key, Len(bs))
      p == chainPos(bs[i], key, 1)
  IN  IF p # 0
      THEN [buckets |-> IF sz = 1 THEN << << >> >>
                        ELSE [bs EXCEPT ![i] = chainErase(@, p)],
            size |-> sz - 1, ret |-> TRUE]
      ELSE [buckets |-> bs, size |-> sz, ret |-> FALSE]

\* erase: the table after the call and the value returned
eraseIn(bs, sz, h, key) ==
  LET i == indexFor(h, key, Len(bs))
      p == chainPos(bs[i], key, 1)
  IN  IF p # 0
      THEN [buckets |-> [bs EXCEPT ![i] = chainErase(@, p)],
            size |-> sz - 1, ret |-> TRUE]
      ELSE [buckets |-> bs, size |-> sz, ret |-> FALSE]

(***************************************************************************)
(* Construction.  The bucket count is the caller's argument; the hash of   *)
(* the standard library is unspecified, so it is any fixed function.       *)
(***************************************************************************)
Call(op, key, value, ret, ptr) ==
  [op |-> op, key |-> key, value |-> value, ret |-> ret, ptr |-> ptr]

HashTable(n, h) ==
  /\ buckets_ = [j \in 1..n |-> << >>]
  /\ size_ = 0
  /\ hash = h
  /\ fault = FALSE
  /\ last = Call("HashTable", "", 0, FALSE, << >>)
  /\ hist = [k \in DOMAIN h |-> << >>]
  /\ erased = FALSE

\* std::hash<std::string> of the keys of KeyPool as this build computes it
\* (libstdc++, 64 bits).  indexFor uses a hash value only modulo the bucket
\* count, so each value is written by its remainder modulo 720720 * 23, a
\* multiple of every bucket count up to 16 and of 21 and 23: at each of
\* these counts the index is that of the 64-bit value (k0 is
\* 14216425451484234765, index 3 of 7 and 5 of 10).
stdHash ==
  [k0 |-> 5344125, k1 |-> 862449, k2 |-> 633767, k3 |-> 5961844,
   k4 |-> 5444189, k5 |-> 14811456, k6 |-> 6855819, k7 |-> 2278148,
   k8 |-> 14830333, k9 |-> 16104605, k10 |-> 4541666, k11 |-> 8936084]

\* The hash of the build, and every way small hash values collide: for
\* these the keys differ only by their hash, so it is enough to take the
\* functions that are non-decreasing along KeyPool (every other function is
\* one of these with the keys renamed).
HashFns ==
  {h \in [Keys -> 0..MaxHash] :
     \A i \in 1..NumKeys, j \in 1..NumKeys :
       i <= j => h[KeyPool[i]] <= h[KeyPool[j]]}
  \cup {[k \in Keys |-> stdHash[k]]}

\* no parser call in progress
textIdle ==
  /\ fn = "none"
  /\ arg = << >>
  /\ loc = << >>
  /\ out = << >>
  /\ seen = << >>
  /\ categoryIndex = << >>

Init ==
  /\ \E n \in 0..MaxInitBuckets, h \in HashFns : HashTable(n, h)
  /\ textIdle

\* a table of DenseBuckets buckets whose keys hash to multiples of 3: no two
\* keys share a bucket of the initial table, some do after growth
denseHash == [k \in DenseKeys |->
                3 * (CHOOSE i \in 1..DenseBuckets : KeyPool[i] = k)]

\* the keys hash as denseHash says or as the build's std::hash does
InitDense ==
  /\ \E h \in {denseHash, [k \in DenseKeys |-> stdHash[k]]} :
       HashTable(DenseBuckets, h)
  /\ textIdle

(***************************************************************************)
(* Operations.  With no buckets, indexFor divides by zero: the process     *)
(* traps and no call returns.                                              *)
(***************************************************************************)
trap(op, key, value) ==
  /\ fault' = TRUE
  /\ last' = Call(op, key, value, FALSE, << >>)
  /\ UNCHANGED <<buckets_, size_, hash, hist, erased>>

insert(key, value) ==
  /\ ~fault
  /\ IF Len(buckets_) = 0
     THEN trap("insert", key, value)
     ELSE LET r == insertIn(buckets_, size_, hash, key, value)
          IN  /\ buckets_' = r.buckets
              /\ size_' = r.size
              /\ last' = Call("insert", key, value, r.ret, << >>)
              /\ hist' = [hist EXCEPT ![key] = <<value>>]
              /\ UNCHANGED <<hash, fault, erased>>

\* mutant: find unlinks the node it has found
find_unlinks(key) ==
  /\ ~fault
  /\ IF Len(buckets_) = 0
     THEN trap("find", key, 0)
     ELSE LET r == findIn(buckets_, hash, key)
              e == eraseIn(buckets_, size_, hash, key)
          IN  /\ last' = Call("find", key, 0, r # << >>, r)
              /\ buckets_' = e.buckets
              /\ size_' = e.size
              /\ UNCHANGED <<hash, fault, hist, erased>>

find(key) ==
  /\ ~fault
  /\ IF Len(buckets_) = 0
     THEN trap("find", key, 0)
     ELSE LET r == findIn(buckets_, hash, key)
          IN  /\ last' = Call("find", key, 0, r # << >>, r)
              /\ UNCHANGED <<buckets_, size_, hash, fault, hist, erased>>

erase(key) ==
  /\ ~fault
  /\ IF Len(buckets_) = 0
     THEN trap("erase", key, 0)
     ELSE LET r == eraseIn(buckets_, size_, hash, key)
          IN  /\ buckets_' = r.buckets
              /\ size_' = r.size
              /\ last' = Call("erase", key, 0, r.ret, << >>)
              /\ hist' = [hist EXCEPT ![key] = << >>]
              /\ erased' = TRUE
              /\ UNCHANGED <<hash, fault>>

Next ==
  \/ \E k \in DOMAIN hash, v \in Values :
       insert(k, v) /\ UNCHANGED textVars
  \/ \E k \in DOMAIN hash : find(k) /\ UNCHANGED textVars
  \/ \E k \in DOMAIN hash : erase(k) /\ UNCHANGED textVars

Spec == Init /\ [][Next]_vars

NextDense ==
  \/ \E k \in DOMAIN hash : insert(k, 1) /\ UNCHANGED textVars
  \/ \E k \in DOMAIN hash : find(k) /\ UNCHANGED textVars
  \/ \E k \in DOMAIN hash : erase(k) /\ UNCHANGED textVars

SpecDense == InitDense /\ [][NextDense]_vars

(***************************************************************************)
(* What the table holds, read off the chains without hashing.              *)
(***************************************************************************)
nodeCount(bs) == Len(allNodes(bs, 1))

pairsOf(bs) ==
  LET nodes == allNodes(bs, 1)
  IN  {<<nodes[i].key, nodes[i].value>> : i \in 1..Len(nodes)}

keysOf(bs) == {pr[1] : pr \in pairsOf(bs)}

\* the call that has just returned (a trapped call returns nothing)
returned(op) == last.op = op /\ ~fault

(***************************************************************************)
(* C1: insert(k, v) returns true exactly when k was absent before the      *)
(* call, and then size grows by 1; it returns false exactly when k was     *)
(* present, and then size is unchanged; either way the table holds (k, v)  *)
(* afterwards and no other value for k.                                    *)
(***************************************************************************)
C1_InsertStep ==
  returned("insert")' =>
    LET k == last'.key
        v == last'.value
        was == k \in keysOf(buckets_)
    IN  /\ last'.ret = ~was
        /\ size_' = IF was THEN size_ ELSE size_ + 1
        /\ {pr \in pairsOf(buckets_') : pr[1] = k} = {<<k, v>>}
        /\ findIn(buckets_', hash', k) = <<v>>

C1_InsertReturn == [][C1_InsertStep]_vars

\* an update of a stored key with another value has returned false
C1_Witness ==
  /\ returned("insert")
  /\ ~last.ret
  /\ size_ = NumKeys
  /\ \E k \in DOMAIN hash : hist[k] # << >> /\ hist[k] # <<1>>

(***************************************************************************)
(* C2: for every key whose last insert/erase call was insert(k, v),        *)
(* find(k) is present and yields exactly v.                                *)
(***************************************************************************)
C2_FindLastInserted ==
  bucketCount > 0 =>
    \A k \in DOMAIN hash :
      hist[k] # << >> => findIn(buckets_, hash, k) = hist[k]

\* all keys stored after growth, an erase and a later insert, two keys
\* sharing a chain
C2_Witness ==
  /\ erased
  /\ bucketCount > MaxInitBuckets
  /\ \A k \in DOMAIN hash : hist[k] # << >>
  /\ \E i \in 1..bucketCount : Len(buckets_[i]) >= 2

(***************************************************************************)
(* C3: find(k) is absent for every key that was never inserted or whose    *)
(* last insert/erase call was erase(k).                                    *)
(***************************************************************************)
C3_FindAbsent ==
  bucketCount > 0 =>
    \A k \in DOMAIN hash :
      hist[k] = << >> => findIn(buckets_, hash, k) = << >>

\* a stored key has just been erased from a chain that still holds a node
C3_Witness ==
  /\ returned("erase")
  /\ last.ret
  /\ hist[last.key] = << >>
  /\ Len(buckets_[indexFor(hash, last.key, bucketCount)]) >= 1

(***************************************************************************)
(* C4: as long as only insert (and find) has been called on the            *)
(* constructed table, size() is the number of distinct keys inserted; and  *)
(* an insert of a key that is already stored never changes size().         *)
(***************************************************************************)
C4_Distinct ==
  ~erased => size = Cardinality({k \in DOMAIN hash : hist[k] # << >>})

C4_ReinsertStep ==
  (returned("insert")' /\ last'.key \in keysOf(buckets_)) => size_' = size_

C4_SizeCountsDistinctKeys == []C4_Distinct /\ [][C4_ReinsertStep]_vars

\* every key inserted, the last call an insert of a stored key
C4_Witness ==
  /\ ~erased
  /\ returned("insert")
  /\ ~last.ret
  /\ size = NumKeys
  /\ bucketCount > MaxInitBuckets

(***************************************************************************)
(* C5: erase(k) of a stored key returns true, decreases size() by exactly  *)
(* 1 and makes find(k) absent; find(k) then stays absent over every call   *)
(* that is not an insert of k.                                             *)
(***************************************************************************)
C5_EraseStep ==
  (returned("erase")' /\ last'.key \in keysOf(buckets_)) =>
    /\ last'.ret
    /\ size_' = size_ - 1
    /\ findIn(buckets_', hash', last'.key) = << >>

C5_StaysAbsentStep ==
  (bucketCount > 0 /\ ~fault') =>
    \A k \in DOMAIN hash :
      (/\ findIn(buckets_, hash, k) = << >>
       /\ ~(last'.op = "insert" /\ last'.key = k))
      => findIn(buckets_', hash', k) = << >>

C5_ErasePresent == [][C5_EraseStep /\ C5_StaysAbsentStep]_vars

\* a stored key has been erased and two other keys share a chain
C5_Witness ==
  /\ returned("erase")
  /\ last.ret
  /\ size_ = NumKeys - 1
  /\ \E i \in 1..bucketCount : Len(buckets_[i]) >= 2

(***************************************************************************)
(* C6: erase(k) of a key that is not stored returns false and leaves       *)
(* size, bucket count and every chain as they were.                        *)
(***************************************************************************)
C6_EraseStep ==
  (returned("erase")' /\ last'.key \notin keysOf(buckets_)) =>
    /\ ~last'.ret
    /\ buckets_' = buckets_
    /\ size_' = size_

C6_EraseAbsent == [][C6_EraseStep]_vars

\* erase of a missing key whose bucket holds other keys
C6_Witness ==
  /\ returned("erase")
  /\ ~last.ret
  /\ Len(buckets_[indexFor(hash, last.key, bucketCount)]) >= 1

(***************************************************************************)
(* C7: whenever insert has returned, 10 * size() <= 9 * bucketCount().     *)
(***************************************************************************)
C7_LoadFactorBound ==
  returned("insert") =>
    kMaxLoadFactorDen * size <= kMaxLoadFactorNum * bucketCount

\* the first insert into a table constructed with a single bucket
C7_Witness ==
  /\ returned("insert")
  /\ last.ret
  /\ ~erased
  /\ size = 1
  /\ bucketCount = 3

(***************************************************************************)
(* C8: an insert that triggers growth (a new key, and more than 9/10 of    *)
(* the buckets' number of entries with it) leaves exactly the pairs held   *)
(* before plus the new pair, one node per pair, every earlier key findable *)
(* with its value, and strictly more buckets.                              *)
(***************************************************************************)
C8_GrowthStep ==
  (/\ returned("insert")'
   /\ last'.key \notin keysOf(buckets_)
   /\ kMaxLoadFactorDen * (nodeCount(buckets_) + 1)
        > kMaxLoadFactorNum * bucketCount)
  => /\ pairsOf(buckets_') =
          pairsOf(buckets_) \cup {<<last'.key, last'.value>>}
     /\ nodeCount(buckets_') = nodeCount(buckets_) + 1
     /\ \A pr \in pairsOf(buckets_) :
          /\ findIn(buckets_, hash, pr[1]) = <<pr[2]>>
          /\ findIn(buckets_', hash', pr[1]) = <<pr[2]>>
     /\ findIn(buckets_', hash', last'.key) = <<last'.value>>
     /\ bucketCount' > bucketCount

C8_GrowthPreservesEntries == [][C8_GrowthStep]_vars

\* the second insert into a table of two buckets has grown it to five,
\* and the two keys shared a bucket before
C8_Witness ==
  /\ returned("insert")
  /\ last.ret
  /\ ~erased
  /\ size = 2
  /\ bucketCount = 5
  /\ \A k \in keysOf(buckets_) : hash[k] % 2 = 0
  /\ \E k \in keysOf(buckets_) : hash[k] = 2

(***************************************************************************)
(* C9: bucketCount() > 0 in every reachable state.                         *)
(***************************************************************************)
C9_BucketCountPositive == bucketCount > 0

(***************************************************************************)
(* C10: insert changes the bucket count exactly when it created a new      *)
(* entry and 10 * size > 9 * bucketCount holds with it; the new count is   *)
(* then 2 * old + 1.                                                       *)
(***************************************************************************)
C10_GrowStep ==
  returned("insert")' =>
    LET grows == /\ last'.ret
                 /\ kMaxLoadFactorDen * size_' > kMaxLoadFactorNum * bucketCount
    IN  /\ (bucketCount' # bucketCount) = grows
        /\ grows => bucketCount' = 2 * bucketCount + 1

C10_GrowthCondition == [][C10_GrowStep]_vars

\* a new entry has brought the load factor to exactly 9/10: no growth
C10_Witness ==
  /\ returned("insert")
  /\ last.ret
  /\ size > 0
  /\ kMaxLoadFactorDen * size = kMaxLoadFactorNum * bucketCount

(***************************************************************************)
(***************************************************************************)
(* Record tokenizer and field sanitizer (namespace inv::detail).           *)
(***************************************************************************)
(***************************************************************************)
MaxLineLen == 6

Quote == "\""
Comma == ","
Newline == "\n"
Pipe == "|"
Space == " "

\* every string over the alphabet of at most n characters
Strs(alphabet, n) == UNION {[1..k -> alphabet] : k \in 0..n}

\* no table is involved in a run of a parser function
tableIdle ==
  /\ buckets_ = << >>
  /\ size_ = 0
  /\ hash = << >>
  /\ fault = FALSE
  /\ last = Call("none", "", 0, FALSE, << >>)
  /\ hist = << >>
  /\ erased = FALSE
  /\ categoryIndex = << >>

returns(f) == fn = f /\ out # << >>

(***************************************************************************)
(* parseCsvLine: the locals at the head of the for loop, one loop          *)
(* iteration, and the statements after the loop.  Positions are 1-based.   *)
(***************************************************************************)
parseStart == [i |-> 1, cur |-> << >>, inQuotes |-> FALSE, result |-> << >>]

\* mutant: a doubled quote inside a quoted field closes and reopens it
parseStep_noEscape(line, st) ==
  LET c == line[st.i]
  IN  IF st.inQuotes
      THEN IF c = Quote
           THEN [st EXCEPT !.inQuotes = FALSE, !.i = @ + 1]
           ELSE [st EXCEPT !.cur = Append(@, c), !.i = @ + 1]
      ELSE IF c = Quote THEN [st EXCEPT !.inQuotes = TRUE, !.i = @ + 1]
           ELSE IF c = Comma
                THEN [st EXCEPT !.result = Append(@, st.cur),
                                !.cur = << >>, !.i = @ + 1]
                ELSE [st EXCEPT !.cur = Append(@, c), !.i = @ + 1]

\* mutant: a comma met inside quoted state ends the quoted state
parseStep_commaCloses(line, st) ==
  LET c == line[st.i]
  IN  IF st.inQuotes
      THEN IF c = Quote
           THEN IF st.i + 1 <= Len(line) /\ line[st.i + 1] = Quote
                THEN [st EXCEPT !.cur = Append(@, Quote), !.i = @ + 2]
                ELSE [st EXCEPT !.inQuotes = FALSE, !.i = @ + 1]
           ELSE IF c = Comma
                THEN [st EXCEPT !.result = Append(@, st.cur), !.cur = << >>,
                                !.inQuotes = FALSE, !.i = @ + 1]
                ELSE [st EXCEPT !.cur = Append(@, c), !.i = @ + 1]
      ELSE IF c = Quote THEN [st EXCEPT !.inQuotes = TRUE, !.i = @ + 1]
           ELSE IF c = Comma
                THEN [st EXCEPT !.result = Append(@, st.cur),
                                !.cur = << >>, !.i = @ + 1]
                ELSE [st EXCEPT !.cur = Append(@, c), !.i = @ + 1]

parseStep(line, st) ==
  LET c == line[st.i]
  IN  IF st.inQuotes
      THEN IF c = Quote
           THEN IF st.i + 1 <= Len(line) /\ line[st.i + 1] = Quote
                THEN [st EXCEPT !.cur = Append(@, Quote), !.i = @ + 2]
                ELSE [st EXCEPT !.inQuotes = FALSE, !.i = @ + 1]
           ELSE [st EXCEPT !.cur = Append(@, c), !.i = @ + 1]
      ELSE IF c = Quote THEN [st EXCEPT !.inQuotes = TRUE, !.i = @ + 1]
           ELSE IF c = Comma
                THEN [st EXCEPT !.result = Append(@, st.cur),
                                !.cur = << >>, !.i = @ + 1]
                ELSE [st EXCEPT !.cur = Append(@, c), !.i = @ + 1]

\* mutant: the last field is pushed only when it is not empty
parseEnd_skipEmpty(st) ==
  IF st.cur = << >> THEN st.result ELSE Append(st.result, st.cur)

\* result.push_back(cur); return result
parseEnd(st) == Append(st.result, st.cur)

RECURSIVE parseRun(_, _)
parseRun(line, st) ==
  IF st.i > Len(line) THEN st ELSE parseRun(line, parseStep(line, st))

parseCsvLine(line) == parseEnd(parseRun(line, parseStart))

(***************************************************************************)
(* A run of parseCsvLine on any short record text, one loop iteration per  *)
(* step.  seen counts the commas met outside quoted state.                 *)
(***************************************************************************)
CsvChars == {"a", Comma, Quote}

InitParse ==
  /\ tableIdle
  /\ fn = "parseCsvLine"
  /\ arg \in Strs(CsvChars, MaxLineLen)
  /\ loc = parseStart
  /\ out = << >>
  /\ seen = 0

ParseChar ==
  /\ fn = "parseCsvLine"
  /\ out = << >>
  /\ loc.i <= Len(arg)
  /\ loc' = parseStep(arg, loc)
  /\ seen' = IF ~loc.inQuotes /\ arg[loc.i] = Comma THEN seen + 1 ELSE seen
  /\ UNCHANGED <<fn, arg, out>>
  /\ UNCHANGED <<tableVars, categoryIndex>>

ParseReturn ==
  /\ fn = "parseCsvLine"
  /\ out = << >>
  /\ loc.i > Len(arg)
  /\ out' = <<parseEnd(loc)>>
  /\ UNCHANGED <<fn, arg, loc, seen>>
  /\ UNCHANGED <<tableVars, categoryIndex>>

NextParse == ParseChar \/ ParseReturn

SpecParse == InitParse /\ [][NextParse]_vars

(***************************************************************************)
(* C11: parseCsvLine yields one more field than the number of commas met   *)
(* outside quoted state; a comma met inside quoted state is copied into    *)
(* the current field; the last field is emitted also when it is empty      *)
(* (the empty record gives one empty field, a trailing comma a final empty *)
(* field); a,b,"c,d",e gives [a, b, c,d, e].                               *)
(***************************************************************************)
C11_Example ==
  parseCsvLine(<<"a", ",", "b", ",", "\"", "c", ",", "d", "\"", ",", "e">>)
    = << <<"a">>, <<"b">>, <<"c", ",", "d">>, <<"e">> >>

C11_Returned ==
  returns("parseCsvLine") =>
    /\ Len(out[1]) = seen + 1
    /\ out[1] = parseCsvLine(arg)
    /\ arg = << >> => out[1] = << << >> >>
    /\ (arg # << >> /\ arg[Len(arg)] = Comma /\ ~loc.inQuotes)
         => out[1][Len(out[1])] = << >>
    /\ C11_Example

C11_QuotedCommaStep ==
  (fn = "parseCsvLine" /\ loc' # loc /\ loc.inQuotes /\ arg[loc.i] = Comma)
    => /\ loc'.cur = Append(loc.cur, Comma)
       /\ loc'.result = loc.result
       /\ loc'.inQuotes

C11_FieldCount == []C11_Returned /\ [][C11_QuotedCommaStep]_vars

\* a record with a comma inside quotes and a trailing comma has been split
C11_Witness ==
  /\ returns("parseCsvLine")
  /\ Len(out[1]) = 2
  /\ \E j \in 1..Len(out[1][1]) : out[1][1][j] = Comma
  /\ out[1][2] = << >>
  /\ arg[Len(arg)] = Comma

(***************************************************************************)
(* C12: in parseCsvLine a quote met outside quoted state enters quoted     *)
(* state and is not copied; inside quoted state a quote followed by a      *)
(* quote appends one quote and stays in quoted state, a quote not followed *)
(* by a quote leaves quoted state and is not copied; every other character *)
(* is copied verbatim in both states.                                      *)
(***************************************************************************)
C12_QuoteRules ==
  LET c == arg[loc.i]
      doubled == loc.i + 1 <= Len(arg) /\ arg[loc.i + 1] = Quote
  IN  /\ (c = Quote /\ ~loc.inQuotes) =>
           loc'.inQuotes /\ loc'.cur = loc.cur /\ loc'.i = loc.i + 1
      /\ (c = Quote /\ loc.inQuotes /\ doubled) =>
           /\ loc'.inQuotes
           /\ loc'.cur = Append(loc.cur, Quote)
           /\ loc'.i = loc.i + 2
      /\ (c = Quote /\ loc.inQuotes /\ ~doubled) =>
           ~loc'.inQuotes /\ loc'.cur = loc.cur /\ loc'.i = loc.i + 1
      /\ c = Quote => loc'.result = loc.result

C12_Copied(c) ==
  /\ loc'.cur = Append(loc.cur, c)
  /\ loc'.inQuotes = loc.inQuotes
  /\ loc'.result = loc.result
  /\ loc'.i = loc.i + 1

C12_Example ==
  parseCsvLine(<<"\"", "H", "e", " ", "s", "a", "i", "d", " ", "\"", "\"",
                 "H", "i", "\"", "\"", "\"", ",", "n", "e", "x", "t">>)
    = << <<"H", "e", " ", "s", "a", "i", "d", " ", "\"", "H", "i", "\"">>,
         <<"n", "e", "x", "t">> >>

\* the claim as stated: every character but a quote is copied
C12_AsStatedStep ==
  (fn = "parseCsvLine" /\ loc' # loc) =>
    /\ C12_QuoteRules
    /\ arg[loc.i] # Quote => C12_Copied(arg[loc.i])

C12_AsStated == [][C12_AsStatedStep]_vars

\* amended: a comma met outside quoted state is not copied, it ends the field
C12_AmendedStep ==
  (fn = "parseCsvLine" /\ loc' # loc) =>
    /\ C12_QuoteRules
    /\ (arg[loc.i] # Quote /\ ~(arg[loc.i] = Comma /\ ~loc.inQuotes))
         => C12_Copied(arg[loc.i])
    /\ (arg[loc.i] = Comma /\ ~loc.inQuotes) =>
         /\ loc'.result = Append(loc.result, loc.cur)
         /\ loc'.cur = << >>
         /\ ~loc'.inQuotes
    /\ C12_Example

C12_CharRules == [][C12_AmendedStep]_vars

\* a doubled quote has been copied as one quote, the scan still in quotes
C12_Witness ==
  /\ fn = "parseCsvLine"
  /\ loc.inQuotes
  /\ loc.cur = <<"a", Quote>>
  /\ loc.i = 5

(***************************************************************************)
(* Whitespace and trimming.  std::isspace in the "C" locale; the vertical  *)
(* tab and the NUL character have no escape here and are written \\v, \\0. *)
(***************************************************************************)
VTab == "\\v"
Nul == "\\0"

isspace(c) == c \in {" ", "\t", "\n", VTab, "\f", "\r"}

RECURSIVE ltrimFrom(_, _)
ltrimFrom(s, i) ==
  IF i <= Len(s) /\ isspace(s[i]) THEN ltrimFrom(s, i + 1)
  ELSE SubSeq(s, i, Len(s))

ltrim(s) == ltrimFrom(s, 1)

RECURSIVE rtrimTo(_, _)
rtrimTo(s, i) ==
  IF i > 0 /\ isspace(s[i]) THEN rtrimTo(s, i - 1) ELSE SubSeq(s, 1, i)

rtrim(s) == IF s = << >> THEN s ELSE rtrimTo(s, Len(s))

trim(s) == rtrim(ltrim(s))

(***************************************************************************)
(* sanitize: the loop over the characters with its out and prev, then trim *)
(***************************************************************************)
\* mutant: prev remembers the whitespace character met, not ' '
RECURSIVE sanitizeLoop_prevRaw(_, _, _, _)
sanitizeLoop_prevRaw(s, i, o, prev) ==
  IF i > Len(s) THEN o
  ELSE LET c == IF s[i] \in {"\n", "\r", "\t"} THEN " " ELSE s[i]
       IN  IF isspace(c)
           THEN IF prev = " " THEN sanitizeLoop_prevRaw(s, i + 1, o, prev)
                ELSE sanitizeLoop_prevRaw(s, i + 1, Append(o, " "), c)
           ELSE sanitizeLoop_prevRaw(s, i + 1, Append(o, c), c)

RECURSIVE sanitizeLoop(_, _, _, _)
sanitizeLoop(s, i, o, prev) ==
  IF i > Len(s) THEN o
  ELSE LET c == IF s[i] \in {"\n", "\r", "\t"} THEN " " ELSE s[i]
       IN  IF isspace(c)
           THEN IF prev = " " THEN sanitizeLoop(s, i + 1, o, prev)
                ELSE sanitizeLoop(s, i + 1, Append(o, " "), " ")
           ELSE sanitizeLoop(s, i + 1, Append(o, c), c)

\* mutant: the result of the loop is returned untrimmed
sanitize_noTrim(s) == sanitizeLoop(s, 1, << >>, Nul)

sanitize(s) == trim(sanitizeLoop(s, 1, << >>, Nul))

(***************************************************************************)
(* cleanPrice: sanitize, then drop every ' '                               *)
(***************************************************************************)
\* mutant: the spaces are dropped from the raw text
cleanPrice_raw(raw) == SelectSeq(raw, LAMBDA c : c # " ")

cleanPrice(raw) == SelectSeq(sanitize(raw), LAMBDA c : c # " ")

(***************************************************************************)
(* extractCategories: split on '|' trimming each part, then keep the       *)
(* first occurrence of every non-empty part; {"NA"} if none is left.       *)
(***************************************************************************)
NA == <<"N", "A">>

RECURSIVE splitParts(_, _, _, _)
splitParts(raw, i, cur, parts) ==
  IF i > Len(raw) THEN Append(parts, trim(cur))
  ELSE IF raw[i] = Pipe
       THEN splitParts(raw, i + 1, << >>, Append(parts, trim(cur)))
       ELSE splitParts(raw, i + 1, Append(cur, raw[i]), parts)

\* mutant: every non-empty part is kept, repeated or not
RECURSIVE cleanParts_keepAll(_, _, _, _)
cleanParts_keepAll(parts, i, uniq, cleaned) ==
  IF i > Len(parts) THEN cleaned
  ELSE IF parts[i] = << >>
       THEN cleanParts_keepAll(parts, i + 1, uniq, cleaned)
       ELSE cleanParts_keepAll(parts, i + 1, uniq, Append(cleaned, parts[i]))

RECURSIVE cleanParts(_, _, _, _)
cleanParts(parts, i, uniq, cleaned) ==
  IF i > Len(parts) THEN cleaned
  ELSE IF parts[i] = << >> THEN cleanParts(parts, i + 1, uniq, cleaned)
  ELSE IF parts[i] \in uniq THEN cleanParts(parts, i + 1, uniq, cleaned)
  ELSE cleanParts(parts, i + 1, uniq \cup {parts[i]},
                  Append(cleaned, parts[i]))

extractCategories(raw) ==
  LET cleaned == cleanParts(splitParts(raw, 1, << >>, << >>), 1, {}, << >>)
  IN  IF cleaned = << >> THEN <<NA>> ELSE cleaned

(***************************************************************************)
(* joinCategories: the parts with " | " between them                       *)
(***************************************************************************)
RECURSIVE joinFrom(_, _, _, _)
joinFrom(cats, i, sep, oss) ==
  IF i > Len(cats) THEN oss
  ELSE joinFrom(cats, i + 1, sep,
                (IF i = 1 THEN oss ELSE oss \o sep) \o cats[i])

\* mutant: ", " as the separator
joinCategories_comma(cats) == joinFrom(cats, 1, <<",", " ">>, << >>)

joinCategories(cats) == joinFrom(cats, 1, <<" ", "|", " ">>, << >>)

(***************************************************************************)
(* isBalancedQuotes: the scan with its inQuotes flag (cnt is never read)   *)
(***************************************************************************)
\* mutant: the second quote of an escaped pair is not skipped
RECURSIVE balancedScan_noSkip(_, _, _)
balancedScan_noSkip(s, i, inQuotes) ==
  IF i > Len(s) THEN ~inQuotes
  ELSE IF s[i] = Quote
       THEN IF inQuotes /\ i + 1 <= Len(s) /\ s[i + 1] = Quote
            THEN balancedScan_noSkip(s, i + 1, inQuotes)
            ELSE balancedScan_noSkip(s, i + 1, ~inQuotes)
       ELSE balancedScan_noSkip(s, i + 1, inQuotes)

RECURSIVE balancedScan(_, _, _)
balancedScan(s, i, inQuotes) ==
  IF i > Len(s) THEN ~inQuotes
  ELSE IF s[i] = Quote
       THEN IF inQuotes /\ i + 1 <= Len(s) /\ s[i + 1] = Quote
            THEN balancedScan(s, i + 2, inQuotes)
            ELSE balancedScan(s, i + 1, ~inQuotes)
       ELSE balancedScan(s, i + 1, inQuotes)

isBalancedQuotes(s) == balancedScan(s, 1, FALSE)

(***************************************************************************)
(* One call of a sanitizer or of isBalancedQuotes on any short input.      *)
(***************************************************************************)
MaxTextLen == 5

TextChars == {"a", "b", " ", "\n", "\f"}

PriceChars == {"$", "9", ".", " ", "\t"}

CatChars == {"a", "b", " ", Pipe}

\* the lists extractCategories returns on short inputs
CatLists == {extractCategories(s) : s \in Strs(CatChars, MaxTextLen)}

InitText ==
  /\ tableIdle
  /\ loc = << >>
  /\ out = << >>
  /\ seen = << >>
  /\ \/ fn = "isBalancedQuotes" /\ arg \in Strs(CsvChars, MaxLineLen)
     \/ fn = "sanitize" /\ arg \in Strs(TextChars, MaxTextLen)
     \/ fn = "cleanPrice" /\ arg \in Strs(PriceChars, MaxTextLen)
     \/ fn = "extractCategories" /\ arg \in Strs(CatChars, MaxTextLen)
     \/ fn = "joinCategories" /\ arg \in CatLists

Return(f, r) ==
  /\ fn = f
  /\ out = << >>
  /\ out' = <<r>>
  /\ UNCHANGED <<fn, arg, loc, seen>>
  /\ UNCHANGED <<tableVars, categoryIndex>>

NextText ==
  \/ Return("isBalancedQuotes", isBalancedQuotes(arg))
  \/ Return("sanitize", sanitize(arg))
  \/ Return("cleanPrice", cleanPrice(arg))
  \/ Return("extractCategories", extractCategories(arg))
  \/ Return("joinCategories", joinCategories(arg))

SpecText == InitText /\ [][NextText]_vars

(***************************************************************************)
(* C13: isBalancedQuotes(s) is true exactly when a left-to-right scan ends *)
(* outside quoted state, every quote toggling the state except a quote met *)
(* inside quoted state and followed by a quote (the pair is skipped);      *)
(* field1,"field2 is unbalanced and becomes balanced once a line closing   *)
(* the quote is joined to it.                                              *)
(***************************************************************************)
\* the state of the scan the claim describes after the first n characters,
\* as a pair <<inside quotes, this character is skipped>>
C13_Scan(s) ==
  LET F[n \in 0..Len(s)] ==
        IF n = 0 THEN <<FALSE, FALSE>>
        ELSE LET before == F[n - 1]
                 skippedHere ==
                   /\ n >= 2
                   /\ ~F[n - 1][2]
                   /\ s[n - 1] = Quote /\ s[n] = Quote
                   /\ F[n - 2][1]
             IN  IF skippedHere THEN <<before[1], TRUE>>
                 ELSE IF s[n] = Quote
                      THEN IF before[1] /\ n + 1 <= Len(s) /\ s[n + 1] = Quote
                           THEN <<before[1], FALSE>>
                           ELSE <<~before[1], FALSE>>
                      ELSE <<before[1], FALSE>>
  IN  F[Len(s)][1]

C13_Unclosed ==
  <<"f", "i", "e", "l", "d", "1", ",", "\"", "f", "i", "e", "l",
      "d", "2">>

C13_Closing ==
  <<"m", "o", "r", "e", "\"", ",", "x">>

C13_Balanced ==
  returns("isBalancedQuotes") =>
    /\ out[1] = ~C13_Scan(arg)
    /\ ~isBalancedQuotes(C13_Unclosed)
    /\ isBalancedQuotes(C13_Unclosed \o <<Newline>> \o C13_Closing)

\* an escaped pair inside an unclosed quoted field
C13_Witness ==
  /\ returns("isBalancedQuotes")
  /\ arg = <<Quote, "a", Quote, Quote, "a">>
  /\ out = <<FALSE>>

(***************************************************************************)
(* C16: sanitize returns a string with no CR, LF or TAB, no two adjacent   *)
(* whitespace characters and no leading or trailing whitespace, whose      *)
(* non-whitespace characters are those of the input in order, each maximal *)
(* interior whitespace run of the input replaced by exactly one space.     *)
(***************************************************************************)
\* the positions of the non-whitespace characters, in increasing order
C16_NonWsPos(s) ==
  SelectSeq([i \in 1..Len(s) |-> i], LAMBDA i : ~isspace(s[i]))

C16_Normal(s, r) ==
  LET P == C16_NonWsPos(s)
      Q == C16_NonWsPos(r)
  IN  /\ \A i \in 1..Len(r) : r[i] \notin {"\r", "\n", "\t"}
      /\ \A i \in 1..Len(r) : isspace(r[i]) => r[i] = Space
      /\ \A i \in 1..(Len(r) - 1) : ~(isspace(r[i]) /\ isspace(r[i + 1]))
      /\ r # << >> => ~isspace(r[1]) /\ ~isspace(r[Len(r)])
      /\ Len(P) = Len(Q)
      /\ \A k \in 1..Len(P) : r[Q[k]] = s[P[k]]
      /\ \A k \in 1..(Len(P) - 1) :
           Q[k + 1] - Q[k] = IF P[k + 1] - P[k] > 1 THEN 2 ELSE 1

C16_Sanitized == returns("sanitize") => C16_Normal(arg, out[1])

\* leading whitespace dropped, a run of two whitespace characters collapsed
C16_Witness ==
  /\ returns("sanitize")
  /\ arg = <<" ", "a", "\n", "\f", "b">>
  /\ out = << <<"a", " ", "b">> >>

(***************************************************************************)
(* C17: cleanPrice(raw) is sanitize(raw) with every space removed: no      *)
(* whitespace at all, exactly the non-whitespace characters of raw in      *)
(* their order.                                                            *)
(***************************************************************************)
C17_PriceCleaned ==
  returns("cleanPrice") =>
    /\ out[1] = SelectSeq(sanitize(arg), LAMBDA c : c # Space)
    /\ \A i \in 1..Len(out[1]) : ~isspace(out[1][i])
    /\ out[1] = SelectSeq(arg, LAMBDA c : ~isspace(c))

\* spaces and a tab around and inside a price
C17_Witness ==
  /\ returns("cleanPrice")
  /\ arg = <<" ", "$", " ", "9", "\t">>
  /\ out = << <<"$", "9">> >>

(***************************************************************************)
(* C18: extractCategories returns the distinct, non-empty, trimmed         *)
(* pipe-separated parts of the input in order of first occurrence, or      *)
(* ["NA"] when there is none; never empty, no empty string, no duplicate.  *)
(***************************************************************************)
\* s without its leading and trailing whitespace
C18_Trimmed(s) ==
  LET idx == {i \in 1..Len(s) : ~isspace(s[i])}
  IN  IF idx = {} THEN << >>
      ELSE SubSeq(s, CHOOSE i \in idx : \A j \in idx : i <= j,
                     CHOOSE i \in idx : \A j \in idx : i >= j)

\* the trimmed text between consecutive pipes (or the ends of the input)
C18_Parts(raw) ==
  LET cuts == <<0>> \o SelectSeq([i \in 1..Len(raw) |-> i],
                                 LAMBDA i : raw[i] = Pipe)
                    \o <<Len(raw) + 1>>
  IN  [k \in 1..(Len(cuts) - 1) |->
         C18_Trimmed(SubSeq(raw, cuts[k] + 1, cuts[k + 1] - 1))]

C18_First(parts, x) ==
  CHOOSE k \in 1..Len(parts) :
    parts[k] = x /\ \A j \in 1..Len(parts) : parts[j] = x => k <= j

C18_Extracted(raw, r) ==
  LET parts == C18_Parts(raw)
      kept == {parts[k] : k \in 1..Len(parts)} \ {<< >>}
  IN  /\ r # << >>
      /\ \A i \in 1..Len(r) : r[i] # << >>
      /\ \A i \in 1..Len(r), j \in 1..Len(r) : i # j => r[i] # r[j]
      /\ IF kept = {} THEN r = <<NA>>
         ELSE /\ {r[i] : i \in 1..Len(r)} = kept
              /\ \A i \in 1..Len(r), j \in 1..Len(r) :
                   i < j => C18_First(parts, r[i]) < C18_First(parts, r[j])

C18_Example ==
  /\ extractCategories(
       <<"E", "l", "e", "c", "t", "r", "o", "n", "i", "c", "s", " ",
       "|", " ", "C", "o", "m", "p", "u", "t", "e", "r", "s", " ",
       "|", " ", "E", "l", "e", "c", "t", "r", "o", "n", "i", "c",
       "s", " ", "|", " ">>)
     = << <<"E", "l", "e", "c", "t", "r", "o", "n", "i", "c", "s">>,
          <<"C", "o", "m", "p", "u", "t", "e", "r", "s">> >>
  /\ extractCategories(<< >>) = <<NA>>

C18_Categories ==
  returns("extractCategories") =>
    C18_Extracted(arg, out[1]) /\ C18_Example

\* a repeated part is dropped, the parts stay in order of first occurrence
C18_Witness ==
  /\ returns("extractCategories")
  /\ arg = <<"b", Pipe, "a", Pipe, "b">>
  /\ out = << << <<"b">>, <<"a">> >> >>

(***************************************************************************)
(* C19: for every list L that extractCategories can return,                *)
(* extractCategories(joinCategories(L)) = L, joinCategories placing " | "  *)
(* between consecutive elements.                                           *)
(***************************************************************************)
RECURSIVE C19_Joined(_)
C19_Joined(L) ==
  IF L = << >> THEN << >>
  ELSE IF Len(L) = 1 THEN L[1]
  ELSE L[1] \o <<Space, Pipe, Space>> \o C19_Joined(Tail(L))

C19_JoinInverse ==
  returns("joinCategories") =>
    /\ out[1] = C19_Joined(arg)
    /\ extractCategories(out[1]) = arg

\* two categories, the first with a space inside
C19_Witness ==
  /\ returns("joinCategories")
  /\ arg = << <<"b", " ", "a">>, <<"a">> >>
  /\ out = << <<"b", " ", "a", " ", "|", " ", "a">> >>

(***************************************************************************)
(* readRecord.  A stream is modelled by its unread text.  std::getline     *)
(* fails on a stream with no unread character; otherwise it extracts the   *)
(* characters up to the first newline and consumes that newline (a last    *)
(* line without a newline is extracted as it is).                          *)
(***************************************************************************)
MaxStreamLen == 6

RECURSIVE lineEnd(_, _)
\* the position of the first newline of s at or after i, Len(s) + 1 if none
lineEnd(s, i) ==
  IF i > Len(s) \/ s[i] = Newline THEN i ELSE lineEnd(s, i + 1)

getline(in) ==
  IF in = << >>
  THEN [ok |-> FALSE, line |-> << >>, in |-> << >>]
  ELSE LET e == lineEnd(in, 1)
       IN  [ok |-> TRUE,
            line |-> SubSeq(in, 1, e - 1),
            in |-> SubSeq(in, e + 1, Len(in))]

appendLine_noNewline(record, extra) == record \o extra

\* record.push_back('\n'); record += extra;
appendLine(record, extra) == record \o <<Newline>> \o extra

atEof_fail(record, in) == [ok |-> FALSE, record |-> << >>, in |-> in]

\* if (!std::getline(in, extra)) break; ... return true;
atEof(record, in) == [ok |-> TRUE, record |-> record, in |-> in]

RECURSIVE readMore(_, _)
\* the while loop of readRecord
readMore(record, in) ==
  IF isBalancedQuotes(record)
  THEN [ok |-> TRUE, record |-> record, in |-> in]
  ELSE LET g == getline(in)
       IN  IF ~g.ok
           THEN atEof(record, g.in)
           ELSE readMore(appendLine(record, g.line), g.in)

readRecord(in) ==
  LET g == getline(in)
  IN  IF ~g.ok
      THEN [ok |-> FALSE, record |-> << >>, in |-> g.in]
      ELSE readMore(g.line, g.in)

(***************************************************************************)
(* Successive calls of readRecord on one stream holding any short text:    *)
(* arg is the unread text when the call is made, loc.in the unread text    *)
(* now, seen the number of calls that have returned.                       *)
(***************************************************************************)
StreamChars == {"a", Quote, Newline}

InitRead ==
  /\ tableIdle
  /\ fn = "readRecord"
  /\ arg \in Strs(StreamChars, MaxStreamLen)
  /\ loc = [in |-> arg]
  /\ out = << >>
  /\ seen = 0

ReadRecord ==
  /\ fn = "readRecord"
  /\ out = << >>
  /\ LET r == readRecord(loc.in)
     IN  /\ out' = <<[ok |-> r.ok, record |-> r.record]>>
         /\ loc' = [in |-> r.in]
  /\ seen' = seen + 1
  /\ UNCHANGED <<fn, arg>>
  /\ UNCHANGED <<tableVars, categoryIndex>>

\* the caller's loop calls again after a successful call
ReadAgain ==
  /\ returns("readRecord")
  /\ out[1].ok
  /\ arg' = loc.in
  /\ out' = << >>
  /\ UNCHANGED <<fn, loc, seen>>
  /\ UNCHANGED <<tableVars, categoryIndex>>

NextRead == ReadRecord \/ ReadAgain

SpecRead == InitRead /\ [][NextRead]_vars

(***************************************************************************)
(* C14: on a stream whose remaining physical lines are l1..ln (n >= 1),    *)
(* readRecord succeeds, returns l1..lk joined by single newlines, k the    *)
(* least index for which that text is quote-balanced (n if there is none), *)
(* and leaves exactly l(k+1)..ln unread; a newline inside a quoted field   *)
(* is kept in the record.                                                  *)
(***************************************************************************)
\* the ends of the physical lines of s: its newlines, and the end of the
\* text when the last line has no newline
C14_Ends(s) ==
  SelectSeq([i \in 1..(Len(s) + 1) |-> i],
            LAMBDA i : IF i <= Len(s) THEN s[i] = Newline
                       ELSE s # << >> /\ s[Len(s)] # Newline)

C14_Lines(s) ==
  LET E == C14_Ends(s)
  IN  [j \in 1..Len(E) |->
         SubSeq(s, (IF j = 1 THEN 0 ELSE E[j - 1]) + 1, E[j] - 1)]

RECURSIVE C14_Join(_, _)
C14_Join(L, k) ==
  IF k = 1 THEN L[1] ELSE C14_Join(L, k - 1) \o <<Newline>> \o L[k]

C14_Least(L) ==
  LET K == {k \in 1..Len(L) : isBalancedQuotes(C14_Join(L, k))}
  IN  IF K = {} THEN Len(L) ELSE CHOOSE k \in K : \A j \in K : k <= j

C14_RecordRead ==
  (returns("readRecord") /\ C14_Lines(arg) # << >>) =>
    LET L == C14_Lines(arg)
        k == C14_Least(L)
    IN  /\ out[1].ok
        /\ out[1].record = C14_Join(L, k)
        /\ C14_Lines(loc.in) = SubSeq(L, k + 1, Len(L))

\* a quoted field holding a newline, followed by one more line
C14_Witness ==
  /\ returns("readRecord")
  /\ arg = <<Quote, Newline, Quote, Newline, "a">>
  /\ out = <<[ok |-> TRUE, record |-> <<Quote, Newline, Quote>>]>>
  /\ loc.in = <<"a">>

(***************************************************************************)
(* The header of a CSV source.  HeaderMap::idx maps each trimmed column    *)
(* name to the 0-based index of the last column carrying it; get answers   *)
(* static_cast<size_t>(-1), which no row index reaches, for a missing      *)
(* name.                                                                   *)
(***************************************************************************)
npos == 2147483647

\* mutant: a missing name answers the first column
get_first(H, name) == IF name \in DOMAIN H.idx THEN H.idx[name] ELSE 0

get(H, name) == IF name \in DOMAIN H.idx THEN H.idx[name] ELSE npos

buildHeader(headerLine) ==
  LET cols == parseCsvLine(headerLine)
      names == {trim(cols[i]) : i \in 1..Len(cols)}
      lastOf(n) == CHOOSE i \in 1..Len(cols) :
                     /\ trim(cols[i]) = n
                     /\ \A j \in 1..Len(cols) : trim(cols[j]) = n => j <= i
  IN  [idx |-> [n \in names |-> lastOf(n) - 1]]

safeGet(row, idx) ==
  IF idx = npos \/ idx >= Len(row) THEN << >> ELSE row[idx + 1]

(***************************************************************************)
(* The column names loadCsv looks up.                                      *)
(***************************************************************************)
col ==
  [uniqId |->
    <<"U", "n", "i", "q", Space, "I", "d">>,
   productName |->
    <<"P", "r", "o", "d", "u", "c", "t", Space, "N", "a", "m", "e">>,
   brandName |->
    <<"B", "r", "a", "n", "d", Space, "N", "a", "m", "e">>,
   category |->
    <<"C", "a", "t", "e", "g", "o", "r", "y">>,
   listPrice |->
    <<"L", "i", "s", "t", Space, "P", "r", "i", "c", "e">>,
   sellingPrice |->
    <<"S", "e", "l", "l", "i", "n", "g", Space, "P", "r", "i", "c", "e">>,
   quantity |->
    <<"Q", "u", "a", "n", "t", "i", "t", "y">>,
   asin |->
    <<"A", "s", "i", "n">>,
   modelNumber |->
    <<"M", "o", "d", "e", "l", Space, "N", "u", "m", "b", "e", "r">>,
   productDescription |->
    <<"P", "r", "o", "d", "u", "c", "t", Space, "D", "e", "s", "c", "r", "i",
      "p", "t", "i", "o", "n">>,
   aboutProduct |->
    <<"A", "b", "o", "u", "t", Space, "P", "r", "o", "d", "u", "c", "t">>,
   stock |->
    <<"S", "t", "o", "c", "k">>]

(***************************************************************************)
(* loadCsv: the Product built from the fields of one record.               *)
(***************************************************************************)
\* mutant: About Product is preferred to Product Description
Product_aboutFirst(cols, H) ==
  LET text(name) == sanitize(safeGet(cols, get(H, name)))
      price(name) == cleanPrice(safeGet(cols, get(H, name)))
      rawCat == text(col.category)
      categories == extractCategories(rawCat)
      description == text(col.productDescription)
  IN  [uniqId |-> text(col.uniqId),
       productName |-> text(col.productName),
       brandName |-> text(col.brandName),
       category |-> joinCategories(categories),
       categories |-> categories,
       listPrice |-> price(col.listPrice),
       sellingPrice |-> price(col.sellingPrice),
       quantity |-> text(col.quantity),
       asin |-> text(col.asin),
       modelNumber |-> text(col.modelNumber),
       productDescription |->
         IF text(col.aboutProduct) = << >> THEN description
         ELSE text(col.aboutProduct),
       stock |-> text(col.stock)]

Product(cols, H) ==
  LET text(name) == sanitize(safeGet(cols, get(H, name)))
      price(name) == cleanPrice(safeGet(cols, get(H, name)))
      rawCat == text(col.category)
      categories == extractCategories(rawCat)
      description == text(col.productDescription)
  IN  [uniqId |-> text(col.uniqId),
       productName |-> text(col.productName),
       brandName |-> text(col.brandName),
       category |-> joinCategories(categories),
       categories |-> categories,
       listPrice |-> price(col.listPrice),
       sellingPrice |-> price(col.sellingPrice),
       quantity |-> text(col.quantity),
       asin |-> text(col.asin),
       modelNumber |-> text(col.modelNumber),
       productDescription |->
         IF description = << >> THEN text(col.aboutProduct) ELSE description,
       stock |-> text(col.stock)]

RECURSIVE indexAdd_skipsKnown(_, _, _)
\* mutant: the identifier is filed only under categories new to the index
indexAdd_skipsKnown(index, cats, id) ==
  IF cats = << >> THEN index
  ELSE LET cat == Head(cats)
       IN  IF cat \in DOMAIN index
           THEN indexAdd_skipsKnown(index, Tail(cats), id)
           ELSE indexAdd_skipsKnown(
                  [c \in DOMAIN index \cup {cat} |->
                     IF c = cat THEN <<id>> ELSE index[c]],
                  Tail(cats), id)

RECURSIVE indexAdd_front(_, _, _)
\* mutant: the identifier is put at the front of each list
indexAdd_front(index, cats, id) ==
  IF cats = << >> THEN index
  ELSE LET cat == Head(cats)
           old == IF cat \in DOMAIN index THEN index[cat] ELSE << >>
           new == [c \in DOMAIN index \cup {cat} |->
                     IF c = cat THEN <<id>> \o old ELSE index[c]]
       IN  indexAdd_front(new, Tail(cats), id)

\* mutant: the identifier is filed under the first category only
indexAdd_firstOnly(index, cats, id) ==
  IF cats = << >> THEN index
  ELSE LET cat == Head(cats)
           old == IF cat \in DOMAIN index THEN index[cat] ELSE << >>
       IN  [c \in DOMAIN index \cup {cat} |->
              IF c = cat THEN Append(old, id) ELSE index[c]]

RECURSIVE indexAdd(_, _, _)
\* for (const auto &cat : p.categories) categoryIndex[cat].push_back(id)
indexAdd(index, cats, id) ==
  IF cats = << >> THEN index
  ELSE LET cat == Head(cats)
           old == IF cat \in DOMAIN index THEN index[cat] ELSE << >>
           new == [c \in DOMAIN index \cup {cat} |->
                     IF c = cat THEN Append(old, id) ELSE index[c]]
       IN  indexAdd(new, Tail(cats), id)

(***************************************************************************)
(* The sources loaded: a path that cannot be opened, a file with no text,  *)
(* and files made of a header line, up to MaxRows records and possibly a   *)
(* last record cut inside a quoted field.                                  *)
(***************************************************************************)
MaxRows == 2

\* the header lines; in idLast and split the identifier column is the last
\* one, and the quoted last name of split runs over two physical lines
Header ==
  [idLast |->
    <<"C", "a", "t", "e", "g", "o", "r", "y", Comma, "P", "r", "o", "d", "u",
      "c", "t", Space, "N", "a", "m", "e", Comma, "U", "n", "i", "q", Space,
      "I", "d">>,
   split |->
    <<"C", "a", "t", "e", "g", "o", "r", "y", Comma, "P", "r", "o", "d", "u",
      "c", "t", Space, "N", "a", "m", "e", Comma, Quote, "U", "n", "i", "q",
      Space, "I", "d", Newline, Quote>>,
   plain |->
    <<"U", "n", "i", "q", Space, "I", "d", Comma, "P", "r", "o", "d", "u",
      "c", "t", Space, "N", "a", "m", "e", Comma, "C", "a", "t", "e", "g",
      "o", "r", "y">>,
   padded |->
    <<Space, "U", "n", "i", "q", Space, "I", "d", Space, Comma, "C", "a",
      "t", "e", "g", "o", "r", "y", Comma, Quote, "P", "r", "o", "d", "u",
      "c", "t", Space, "N", "a", "m", "e", Quote>>,
   noId |->
    <<"I", "d", Comma, "P", "r", "o", "d", "u", "c", "t", Space, "N", "a",
      "m", "e", Comma, "C", "a", "t", "e", "g", "o", "r", "y">>,
   described |->
    <<"U", "n", "i", "q", Space, "I", "d", Comma, "P", "r", "o", "d", "u",
      "c", "t", Space, "D", "e", "s", "c", "r", "i", "p", "t", "i", "o",
      "n", Comma, "A", "b", "o", "u", "t", Space, "P", "r", "o", "d", "u",
      "c", "t">>]

\* the record lines; the late ones go with the headers whose identifier
\* column is the last one, the last four with the described header
Row ==
  [lateWidget |->
    <<"A", Pipe, "B", Comma, "W", "i", "d", "g", "e", "t", Comma, "X", "1">>,
   lateBlank |->
    <<"A", Comma, "N", "u", "t", Comma, Space>>,
   lateAbsent |->
    <<"B", Comma, "N", "u", "t">>,
   lateEmpty |->
    <<"A", Comma, "N", "u", "t", Comma>>,
   widget |->
    <<"X", "1", Comma, "W", "i", "d", "g", "e", "t", Comma, "A", Pipe, "B">>,
   quoted |->
    <<"X", "2", Comma, Quote, "W", "i", "d", Newline, "g", "e", "t", Quote,
      Comma, "B", Pipe, "A">>,
   again |->
    <<Space, "X", "1", Space, Comma, "N", "u", "t", Comma, "B", Pipe, "B">>,
   noId |->
    <<Comma, "N", "u", "t", Comma, "A">>,
   empty |->
    << >>,
   short |->
    <<"X", "2">>,
   open |->
    <<"X", "2", Comma, Quote, "W", "i", "d">>,
   gap |->
    <<"X", "2", Comma, Quote, "W", "i", "d", Newline, Newline, "g", "e",
      "t", Quote, Comma, "B">>,
   both |->
    <<"X", "1", Comma, "d", Space, Space, "e", Comma, "a">>,
   aboutOnly |->
    <<"X", "1", Comma, Comma, "a", Space, "b">>,
   blankDescription |->
    <<"X", "2", Comma, Space, Comma, "a">>,
   neither |->
    <<"X", "2", Comma, Comma>>]

LateHeaderLines == {Header.idLast, Header.split}

LateRowLines == {Row.lateWidget, Row.lateBlank, Row.lateAbsent, Row.lateEmpty}

HeaderLines == {Header.plain, Header.padded, Header.noId}

RowLines == {Row.widget, Row.quoted, Row.again, Row.noId, Row.empty, Row.short}

RECURSIVE fileLines(_)
\* the text of a file whose lines are all ended by a newline
fileLines(lines) ==
  IF lines = << >> THEN << >>
  ELSE Head(lines) \o <<Newline>> \o fileLines(Tail(lines))

SourceTexts ==
  {<< >>} \cup
  {fileLines(<<h>> \o rows) \o tail :
     h \in HeaderLines,
     rows \in UNION {[1..k -> RowLines] : k \in 0..MaxRows},
     tail \in {<< >>, Row.open}} \cup
  {fileLines(<<h>> \o rows) :
     h \in LateHeaderLines,
     rows \in UNION {[1..k -> LateRowLines] : k \in 0..MaxRows}}

Sources ==
  {[open |-> FALSE, text |-> << >>]} \cup
  {[open |-> TRUE, text |-> t] : t \in SourceTexts}

\* the identifiers the sources carry
LoadIds == {<<"X", "1">>, <<"X", "2">>}

\* std::hash<std::string> of the identifiers the sources give, as this
\* build computes it, each value written by its remainder modulo
\* 720720 * 1003, a multiple of every bucket count up to 16 and of 1003:
\* at each of these counts the index is that of the 64-bit value (X1 is
\* 15690356534968476356, index 2 of 3 and 728 of 1003).
stdHashOfId ==
  (<<"X", "1">> :> 544304756) @@
  (<<"X", "2">> :> 360547351) @@
  (<<"X", "9">> :> 703077957) @@
  (<<Comma, "C", "a", "t", "e", "g", "o", "r", "y", Comma, "P", "r", "o",
    "d", "u", "c", "t", Space, "N", "a", "m", "e", Space, "X", "1", Comma,
    "A", Pipe, "B", Comma, "N", "u", "t">> :> 122295542) @@
  (<<Comma, "C", "a", "t", "e", "g", "o", "r", "y", Comma, "P", "r", "o",
    "d", "u", "c", "t", Space, "N", "a", "m", "e", Space, "X", "2", Comma,
    "A", Pipe, "B", Comma, "N", "u", "t">> :> 474261090) @@
  (<<Comma, "P", "r", "o", "d", "u", "c", "t", Space, "N", "a", "m", "e",
    Comma, "C", "a", "t", "e", "g", "o", "r", "y", Space, "X", "1", Comma,
    "N", "u", "t", Comma, "A", Pipe, "B">> :> 173540966) @@
  (<<Comma, "P", "r", "o", "d", "u", "c", "t", Space, "N", "a", "m", "e",
    Comma, "C", "a", "t", "e", "g", "o", "r", "y", Space, "X", "2", Comma,
    "N", "u", "t", Comma, "A", Pipe, "B">> :> 475751210) @@
  (<<Comma, "C", "a", "t", "e", "g", "o", "r", "y", Comma, "P", "r", "o",
    "d", "u", "c", "t", Space, "N", "a", "m", "e", Space, "X", "1", Comma,
    "A", Pipe, "B", Comma, "N", "u", "t", Space, "X", "1", Comma, "A",
    Pipe, "B", Comma, "N", "u", "t">> :> 19635559) @@
  (<<Comma, "C", "a", "t", "e", "g", "o", "r", "y", Comma, "P", "r", "o",
    "d", "u", "c", "t", Space, "N", "a", "m", "e", Space, "X", "1", Comma,
    "A", Pipe, "B", Comma, "N", "u", "t", Space, "X", "2", Comma, "A",
    Pipe, "B", Comma, "N", "u", "t">> :> 170845506) @@
  (<<Comma, "C", "a", "t", "e", "g", "o", "r", "y", Comma, "P", "r", "o",
    "d", "u", "c", "t", Space, "N", "a", "m", "e", Space, "X", "2", Comma,
    "A", Pipe, "B", Comma, "N", "u", "t", Space, "X", "1", Comma, "A",
    Pipe, "B", Comma, "N", "u", "t">> :> 319988321) @@
  (<<Comma, "C", "a", "t", "e", "g", "o", "r", "y", Comma, "P", "r", "o",
    "d", "u", "c", "t", Space, "N", "a", "m", "e", Space, "X", "2", Comma,
    "A", Pipe, "B", Comma, "N", "u", "t", Space, "X", "2", Comma, "A",
    Pipe, "B", Comma, "N", "u", "t">> :> 507047696) @@
  (<<Comma, "P", "r", "o", "d", "u", "c", "t", Space, "N", "a", "m", "e",
    Comma, "C", "a", "t", "e", "g", "o", "r", "y", Space, "X", "1", Comma,
    "N", "u", "t", Comma, "A", Pipe, "B", Space, "X", "1", Comma, "N", "u",
    "t", Comma, "A", Pipe, "B">> :> 112559914) @@
  (<<Comma, "P", "r", "o", "d", "u", "c", "t", Space, "N", "a", "m", "e",
    Comma, "C", "a", "t", "e", "g", "o", "r", "y", Space, "X", "1", Comma,
    "N", "u", "t", Comma, "A", Pipe, "B", Space, "X", "2", Comma, "N", "u",
    "t", Comma, "A", Pipe, "B">> :> 315768860) @@
  (<<Comma, "P", "r", "o", "d", "u", "c", "t", Space, "N", "a", "m", "e",
    Comma, "C", "a", "t", "e", "g", "o", "r", "y", Space, "X", "2", Comma,
    "N", "u", "t", Comma, "A", Pipe, "B", Space, "X", "1", Comma, "N", "u",
    "t", Comma, "A", Pipe, "B">> :> 654878325) @@
  (<<Comma, "P", "r", "o", "d", "u", "c", "t", Space, "N", "a", "m", "e",
    Comma, "C", "a", "t", "e", "g", "o", "r", "y", Space, "X", "2", Comma,
    "N", "u", "t", Comma, "A", Pipe, "B", Space, "X", "2", Comma, "N", "u",
    "t", Comma, "A", Pipe, "B">> :> 322873476)

\* the hash of the build, and two identifiers that share a bucket of a
\* small table or do not
LoadHashFns ==
  [LoadIds -> {0, 1}] \cup {[id \in LoadIds |-> stdHashOfId[id]]}

(***************************************************************************)
(* loadCsv into an empty table and an empty index, one step for the code   *)
(* before the loop and one step per iteration of the loop.  loc holds the  *)
(* locals (in: the unread text of the stream), seen the stream before the  *)
(* last readRecord call, what that call reported, and whether some call    *)
(* returned a record with a quoted field still open.                       *)
(***************************************************************************)
InitLoad ==
  /\ \E n \in 0..MaxInitBuckets, h \in LoadHashFns : HashTable(n, h)
  /\ categoryIndex = << >>
  /\ fn = "loadCsv"
  /\ arg \in Sources
  /\ loc = [pc |-> "open", in |-> << >>, H |-> [idx |-> << >>],
            rec |-> << >>, count |-> 0]
  /\ out = << >>
  /\ seen = [calls |-> 0, in |-> << >>, ok |-> TRUE, midQuote |-> FALSE]

loading(pc) == fn = "loadCsv" /\ out = << >> /\ ~fault /\ loc.pc = pc

\* mutant: a source that cannot be opened empties the category index
LoadNoFile_clears ==
  /\ loading("open")
  /\ ~arg.open
  /\ out' = <<FALSE>>
  /\ categoryIndex' = << >>
  /\ UNCHANGED <<fn, arg, loc, seen>>
  /\ UNCHANGED tableVars

\* if (!in.is_open()) return false;
LoadNoFile ==
  /\ loading("open")
  /\ ~arg.open
  /\ out' = <<FALSE>>
  /\ UNCHANGED <<fn, arg, loc, seen, categoryIndex>>
  /\ UNCHANGED tableVars

\* if (!std::getline(in, headerLine)) return false;
LoadNoHeader ==
  /\ loading("open")
  /\ arg.open
  /\ ~getline(arg.text).ok
  /\ out' = <<FALSE>>
  /\ UNCHANGED <<fn, arg, loc, seen, categoryIndex>>
  /\ UNCHANGED tableVars

LoadHeader ==
  /\ loading("open")
  /\ arg.open
  /\ LET g == getline(arg.text)
     IN  /\ g.ok
         /\ loc' = [loc EXCEPT !.pc = "loop", !.in = g.in,
                               !.H = buildHeader(g.line)]
  /\ UNCHANGED <<fn, arg, out, seen, categoryIndex>>
  /\ UNCHANGED tableVars

\* the call readRecord(in, rec) at the head of the loop; ++count at its end
loadRead(r, counted) ==
  /\ loc' = [loc EXCEPT !.in = r.in, !.rec = r.record,
                        !.count = IF counted THEN @ + 1 ELSE @]
  /\ seen' = [calls |-> seen.calls + 1,
              in |-> loc.in,
              ok |-> r.ok,
              midQuote |-> seen.midQuote
                           \/ (r.ok /\ ~isBalancedQuotes(r.record))]

\* readRecord reports the end of the input: return true;
LoadEnd ==
  /\ loading("loop")
  /\ LET r == readRecord(loc.in)
     IN  /\ ~r.ok
         /\ loadRead(r, FALSE)
  /\ out' = <<TRUE>>
  /\ UNCHANGED <<fn, arg, categoryIndex>>
  /\ UNCHANGED tableVars

\* mutant: an empty record ends the load (break for continue)
LoadSkipEmpty_stops ==
  /\ loading("loop")
  /\ LET r == readRecord(loc.in)
     IN  /\ r.ok
         /\ r.record = << >>
         /\ loadRead(r, FALSE)
  /\ out' = <<TRUE>>
  /\ UNCHANGED <<fn, arg, categoryIndex>>
  /\ UNCHANGED tableVars

\* if (rec.empty()) continue;
LoadSkipEmpty ==
  /\ loading("loop")
  /\ LET r == readRecord(loc.in)
     IN  /\ r.ok
         /\ r.record = << >>
         /\ loadRead(r, FALSE)
  /\ UNCHANGED <<fn, arg, out, categoryIndex>>
  /\ UNCHANGED tableVars

\* mutant: the record is filed in the category index before it is skipped
LoadSkipNoId_indexed ==
  /\ loading("loop")
  /\ LET r == readRecord(loc.in)
         p == Product(parseCsvLine(r.record), loc.H)
     IN  /\ r.ok
         /\ r.record # << >>
         /\ p.uniqId = << >>
         /\ loadRead(r, FALSE)
         /\ categoryIndex' = indexAdd(categoryIndex, p.categories, p.uniqId)
  /\ UNCHANGED <<fn, arg, out>>
  /\ UNCHANGED tableVars

\* if (p.uniqId.empty()) continue;
LoadSkipNoId ==
  /\ loading("loop")
  /\ LET r == readRecord(loc.in)
     IN  /\ r.ok
         /\ r.record # << >>
         /\ Product(parseCsvLine(r.record), loc.H).uniqId = << >>
         /\ loadRead(r, FALSE)
  /\ UNCHANGED <<fn, arg, out, categoryIndex>>
  /\ UNCHANGED tableVars

\* table.insert(p.uniqId, p), then the category index; on a table with no
\* bucket the insert traps
LoadInsert ==
  /\ loading("loop")
  /\ LET r == readRecord(loc.in)
         p == Product(parseCsvLine(r.record), loc.H)
     IN  /\ r.ok
         /\ r.record # << >>
         /\ p.uniqId # << >>
         /\ loadRead(r, Len(buckets_) # 0)
         /\ insert(p.uniqId, p)
         /\ categoryIndex' =
              IF Len(buckets_) = 0 THEN categoryIndex
              ELSE indexAdd(categoryIndex, p.categories, p.uniqId)
  /\ UNCHANGED <<fn, arg, out>>

NextLoad ==
  \/ LoadNoFile
  \/ LoadNoHeader
  \/ LoadHeader
  \/ LoadEnd
  \/ LoadSkipEmpty
  \/ LoadSkipNoId
  \/ LoadInsert

SpecLoad == InitLoad /\ [][NextLoad]_vars

(***************************************************************************)
(* C15: a readRecord call that meets the end of the input while a quoted   *)
(* field is still open reports success and returns all the lines it has    *)
(* read, joined by newlines; readRecord reports the end of the input only  *)
(* when no physical line was left; and loadCsv returns true for a source   *)
(* that ends inside a quoted field.                                        *)
(***************************************************************************)
\* no prefix of the lines is quote-balanced: the input ends in a quoted field
C15_EndsOpen(L) ==
  /\ L # << >>
  /\ \A k \in 1..Len(L) : ~isBalancedQuotes(C14_Join(L, k))

C15_LastCall ==
  (fn = "loadCsv" /\ seen.calls > 0) =>
    LET L == C14_Lines(seen.in)
    IN  /\ C15_EndsOpen(L) =>
             /\ seen.ok
             /\ seen.midQuote
             /\ loc.rec = C14_Join(L, Len(L))
             /\ loc.in = << >>
        /\ ~seen.ok <=> L = << >>

C15_BestEffort ==
  /\ C15_LastCall
  /\ (returns("loadCsv") /\ seen.midQuote) => out = <<TRUE>>

\* a file cut inside the quoted name of its only record: the load returns
\* true and the table holds the record with the text read so far
C15_Witness ==
  /\ returns("loadCsv")
  /\ arg.text = fileLines(<<Header.plain>>) \o Row.open
  /\ out = <<TRUE>>
  /\ seen.midQuote
  /\ \E pr \in pairsOf(buckets_) :
       /\ pr[1] = <<"X", "2">>
       /\ pr[2].productName = <<"W", "i", "d">>

(***************************************************************************)
(* C20: every iteration of the loop that reads a record whose sanitized    *)
(* Uniq Id field is non-empty leaves in the table an entry keyed by that   *)
(* id whose category list is extractCategories of the sanitized Category   *)
(* field, and appends the id to the index list of each category of that    *)
(* list; the row X1,Widget,A|B under the header Uniq Id,Product            *)
(* Name,Category gives key X1 with categories [A, B] and X1 listed under   *)
(* A and under B.                                                          *)
(***************************************************************************)
\* the sanitized field of the record in the column the header names so
C20_Field(rec, name) ==
  LET hdr == parseCsvLine(C14_Lines(arg.text)[1])
      row == parseCsvLine(rec)
      I == {i \in 1..Len(hdr) : trim(hdr[i]) = name /\ i <= Len(row)}
  IN  IF I = {} THEN << >> ELSE sanitize(row[CHOOSE i \in I : TRUE])

C20_ListOf(index, c) == IF c \in DOMAIN index THEN index[c] ELSE << >>

C20_Step ==
  (/\ fn = "loadCsv"
   /\ seen'.calls = seen.calls + 1
   /\ seen'.ok
   /\ ~fault'
   /\ C20_Field(loc'.rec, col.uniqId) # << >>) =>
    LET id == C20_Field(loc'.rec, col.uniqId)
        cats == extractCategories(C20_Field(loc'.rec, col.category))
        held == findIn(buckets_', hash, id)
    IN  /\ held # << >>
        /\ held[1].uniqId = id
        /\ held[1].categories = cats
        /\ \A i \in 1..Len(cats) :
             C20_ListOf(categoryIndex', cats[i]) =
               Append(C20_ListOf(categoryIndex, cats[i]), id)

C20_Example ==
  (/\ returns("loadCsv")
   /\ arg.text = fileLines(<<Header.plain, Row.widget>>)) =>
    /\ size = 1
    /\ \A pr \in pairsOf(buckets_) :
         /\ pr[1] = <<"X", "1">>
         /\ pr[2].categories = << <<"A">>, <<"B">> >>
    /\ DOMAIN categoryIndex = {<<"A">>, <<"B">>}
    /\ categoryIndex[<<"A">>] = << <<"X", "1">> >>
    /\ categoryIndex[<<"B">>] = << <<"X", "1">> >>

C20_RecordLoaded == []C20_Example /\ [][C20_Step]_vars

\* the example source, loaded
C20_Witness ==
  /\ returns("loadCsv")
  /\ arg.text = fileLines(<<Header.plain, Row.widget>>)
  /\ size = 1
  /\ DOMAIN categoryIndex = {<<"A">>, <<"B">>}

(***************************************************************************)
(* C21: an iteration of the loop that reads a record whose Uniq Id field   *)
(* is empty after sanitization (empty, whitespace only, or absent from the *)
(* row) leaves the table and the category index as they were.              *)
(***************************************************************************)
C21_Step ==
  (/\ fn = "loadCsv"
   /\ seen'.calls = seen.calls + 1
   /\ seen'.ok
   /\ C20_Field(loc'.rec, col.uniqId) = << >>) =>
    /\ buckets_' = buckets_
    /\ size_' = size_
    /\ categoryIndex' = categoryIndex

C21_SkippedRecord == [][C21_Step]_vars

\* a record with a whitespace-only identifier, read after one that was
\* inserted
C21_Witness ==
  /\ fn = "loadCsv"
  /\ loc.rec = Row.lateBlank
  /\ size = 1
  /\ DOMAIN categoryIndex = {<<"A">>, <<"B">>}
  /\ categoryIndex[<<"A">>] = << <<"X", "1">> >>

(***************************************************************************)
(* C22: loadCsv returns false exactly when the source cannot be opened; it *)
(* returns true for every source that can be opened, a source with no      *)
(* lines at all included.                                                  *)
(***************************************************************************)
C22_FalseOnlyUnopened ==
  returns("loadCsv") => (out = <<FALSE>> <=> ~arg.open)

(***************************************************************************)
(* C23: after loading any source into an empty table and index, no key     *)
(* occurs more than once in the list of any single category (it may occur  *)
(* in the lists of several categories).                                    *)
(***************************************************************************)
C23_KeyOncePerCategory ==
  returns("loadCsv") =>
    \A c \in DOMAIN categoryIndex :
      \A i \in 1..Len(categoryIndex[c]), j \in 1..Len(categoryIndex[c]) :
        categoryIndex[c][i] = categoryIndex[c][j] => i = j

(***************************************************************************)
(* C24: the header the loader uses is the first logical record of the      *)
(* source: the physical lines up to the first one at which their join is   *)
(* quote-balanced give the column names, and the data records start after  *)
(* them.                                                                   *)
(***************************************************************************)
C24_HeaderIsLogicalRecord ==
  (fn = "loadCsv" /\ loc.pc = "loop" /\ seen.calls = 0) =>
    LET L == C14_Lines(arg.text)
        k == C14_Least(L)
    IN  /\ loc.H = buildHeader(C14_Join(L, k))
        /\ C14_Lines(loc.in) = SubSeq(L, k + 1, Len(L))

(***************************************************************************)
(* Two loads compared: a source given as a table of raw fields (a row of   *)
(* column names, then up to MaxRows rows) is loaded into a fresh table and *)
(* index, then the same source with its columns permuted, header and rows  *)
(* alike, is loaded into a fresh table and index.  The identifier column   *)
(* is named plainly, with surrounding spaces, or in quotes with a newline  *)
(* after the name.                                                         *)
(***************************************************************************)
PermField ==
  [namePadded |->
    <<Space, "U", "n", "i", "q", Space, "I", "d", Space>>,
   nameSplit |->
    <<Quote, "U", "n", "i", "q", Space, "I", "d", Newline, Quote>>,
   x1 |->
    <<"X", "1">>,
   x2 |->
    <<"X", "2">>,
   nut |->
    <<"N", "u", "t">>,
   ab |->
    <<"A", Pipe, "B">>]

PermNames ==
  {<<n, col.productName, col.category>> :
     n \in {col.uniqId, PermField.namePadded, PermField.nameSplit}}

PermRows ==
  {<<id, PermField.nut, PermField.ab>> : id \in {PermField.x1, PermField.x2}}

PermTables ==
  {[names |-> names, rows |-> rows] :
     names \in PermNames,
     rows \in UNION {[1..k -> PermRows] : k \in 1..MaxRows}}

\* the permutations of 1..n other than the identity
Perms(n) ==
  {pi \in [1..n -> 1..n] :
     /\ \A i \in 1..n, j \in 1..n : pi[i] = pi[j] => i = j
     /\ \E i \in 1..n : pi[i] # i}

permute(t, pi) ==
  [names |-> [i \in 1..Len(t.names) |-> t.names[pi[i]]],
   rows |-> [r \in 1..Len(t.rows) |->
               [i \in 1..Len(t.rows[r]) |-> t.rows[r][pi[i]]]]]

RECURSIVE joinFields(_)
\* the fields of one row, separated by commas
joinFields(fields) ==
  IF Len(fields) = 1 THEN fields[1]
  ELSE fields[1] \o <<Comma>> \o joinFields(Tail(fields))

\* the text of the file that holds the table
render(t) ==
  fileLines(<<joinFields(t.names)>>
            \o [r \in 1..Len(t.rows) |-> joinFields(t.rows[r])])

RECURSIVE recordIds(_, _)
\* the identifiers loadCsv builds from the records of the unread text
recordIds(in, H) ==
  LET r == readRecord(in)
  IN  IF ~r.ok THEN {}
      ELSE {Product(parseCsvLine(r.record), H).uniqId} \cup recordIds(r.in, H)

\* the keys loading the text passes to the table
sourceIds(text) ==
  LET g == getline(text)
  IN  IF ~g.ok THEN {} ELSE recordIds(g.in, buildHeader(g.line)) \ {<< >>}

InitPerm ==
  /\ \E t \in PermTables, pi \in Perms(3), n \in 0..MaxInitBuckets :
       /\ arg = [open |-> TRUE, text |-> render(t),
                 other |-> render(permute(t, pi)), first |-> << >>, n |-> n]
       /\ LET ids == sourceIds(render(t))
                       \cup sourceIds(render(permute(t, pi)))
          IN  \E h \in [ids -> {0, 1}]
                        \cup (IF ids \subseteq DOMAIN stdHashOfId
                              THEN {[id \in ids |-> stdHashOfId[id]]}
                              ELSE {}) :
                HashTable(n, h)
  /\ categoryIndex = << >>
  /\ fn = "loadCsv"
  /\ loc = [pc |-> "open", in |-> << >>, H |-> [idx |-> << >>],
            rec |-> << >>, count |-> 0]
  /\ out = << >>
  /\ seen = [calls |-> 0, in |-> << >>, ok |-> TRUE, midQuote |-> FALSE]

\* the first load has returned: its table and index are kept in arg.first,
\* and the permuted source is loaded into a fresh table and index
PermSecond ==
  /\ returns("loadCsv")
  /\ ~fault
  /\ arg.first = << >>
  /\ arg' = [arg EXCEPT !.text = arg.other, !.other = arg.text,
                        !.first = <<[ret |-> out[1],
                                     pairs |-> pairsOf(buckets_),
                                     index |-> categoryIndex]>>]
  /\ buckets_' = [j \in 1..arg.n |-> << >>]
  /\ size_' = 0
  /\ last' = Call("HashTable", "", 0, FALSE, << >>)
  /\ hist' = [k \in DOMAIN hash |-> << >>]
  /\ categoryIndex' = << >>
  /\ loc' = [pc |-> "open", in |-> << >>, H |-> [idx |-> << >>],
             rec |-> << >>, count |-> 0]
  /\ out' = << >>
  /\ seen' = [calls |-> 0, in |-> << >>, ok |-> TRUE, midQuote |-> FALSE]
  /\ UNCHANGED <<fn, hash, fault, erased>>

\* these sources open and have no empty line
NextPerm ==
  \/ LoadHeader
  \/ LoadEnd
  \/ LoadSkipNoId
  \/ LoadInsert
  \/ PermSecond

SpecPerm == InitPerm /\ [][NextPerm]_vars

(***************************************************************************)
(* C25: for every source and every permutation of its columns, applied     *)
(* alike to the header and to every row, loading the permuted source       *)
(* yields the same table contents and the same category index as loading   *)
(* the source; column names are matched after trimming.                    *)
(***************************************************************************)
C25_OrderIndependent ==
  (returns("loadCsv") /\ arg.first # << >>) =>
    /\ out[1] = arg.first[1].ret
    /\ pairsOf(buckets_) = arg.first[1].pairs
    /\ categoryIndex = arg.first[1].index

(***************************************************************************)
(* C26: after a load, the table holds for every identifier the entity      *)
(* built from the last record of the source that carries it, and size()    *)
(* is the number of distinct non-empty identifiers of the source.  The     *)
(* records are the logical records that follow the header line.            *)
(***************************************************************************)
RECURSIVE C26_Records(_)
\* the logical records made of the physical lines L
C26_Records(L) ==
  IF L = << >> THEN << >>
  ELSE LET k == C14_Least(L)
       IN  <<C14_Join(L, k)>> \o C26_Records(SubSeq(L, k + 1, Len(L)))

C26_LastWins ==
  (returns("loadCsv") /\ out = <<TRUE>>) =>
    LET R == C26_Records(Tail(C14_Lines(arg.text)))
        id(i) == C20_Field(R[i], col.uniqId)
        ids == {id(i) : i \in 1..Len(R)} \ {<< >>}
    IN  /\ size = Cardinality(ids)
        /\ keysOf(buckets_) = ids
        /\ \A i \in 1..Len(R) :
             (id(i) # << >> /\ \A j \in (i + 1)..Len(R) : id(j) # id(i)) =>
               LET held == findIn(buckets_, hash, id(i))
               IN  /\ held # << >>
                   /\ held[1].uniqId = id(i)
                   /\ held[1].productName = C20_Field(R[i], col.productName)
                   /\ held[1].categories =
                        extractCategories(C20_Field(R[i], col.category))

\* two records with the identifier X1: the table holds the second
C26_Witness ==
  /\ returns("loadCsv")
  /\ arg.text = fileLines(<<Header.plain, Row.widget, Row.again>>)
  /\ size = 1
  /\ \E pr \in pairsOf(buckets_) :
       /\ pr[1] = <<"X", "1">>
       /\ pr[2].productName = <<"N", "u", "t">>
       /\ pr[2].categories = << <<"B">> >>

(***************************************************************************)
(* C27: within every category list the identifiers stand in the order of   *)
(* their records in the source: the list of c is the sequence of the       *)
(* identifiers of the records that belong to c, first record first.        *)
(***************************************************************************)
\* whether category c is in the list
C27_Has(cats, c) == \E i \in 1..Len(cats) : cats[i] = c

RECURSIVE C27_ListFor(_, _)
\* the identifiers of the records of R that carry category c, in order
C27_ListFor(R, c) ==
  IF R = << >> THEN << >>
  ELSE LET id == C20_Field(Head(R), col.uniqId)
           cats == extractCategories(C20_Field(Head(R), col.category))
       IN  (IF id # << >> /\ C27_Has(cats, c) THEN <<id>> ELSE << >>)
           \o C27_ListFor(Tail(R), c)

C27_SourceOrder ==
  (returns("loadCsv") /\ out = <<TRUE>>) =>
    LET R == C26_Records(Tail(C14_Lines(arg.text)))
    IN  /\ \A c \in DOMAIN categoryIndex :
             categoryIndex[c] = C27_ListFor(R, c)
        /\ \A i \in 1..Len(R) :
             C20_Field(R[i], col.uniqId) # << >> =>
               LET cats == extractCategories(C20_Field(R[i], col.category))
               IN  \A j \in 1..Len(cats) : cats[j] \in DOMAIN categoryIndex

\* X2's record precedes X1's and both carry B: X2 stands first under B
C27_Witness ==
  /\ returns("loadCsv")
  /\ arg.text = fileLines(<<Header.plain, Row.quoted, Row.widget>>)
  /\ <<"B">> \in DOMAIN categoryIndex
  /\ categoryIndex[<<"B">>] = << <<"X", "2">>, <<"X", "1">> >>

(***************************************************************************)
(* C28: after a load, every identifier in the list the index stores under  *)
(* a category c is the key of an entity of the table that has c in its     *)
(* category list.                                                          *)
(***************************************************************************)
C28_ListedMatch ==
  returns("loadCsv") =>
    \A c \in DOMAIN categoryIndex :
      \A i \in 1..Len(categoryIndex[c]) :
        LET held == findIn(buckets_, hash, categoryIndex[c][i])
        IN  /\ held # << >>
            /\ \E j \in 1..Len(held[1].categories) :
                 held[1].categories[j] = c

(***************************************************************************)
(* The REPL of main.cpp: the texts it prints, its own trim, printProduct,   *)
(* printHelp, validCommand and evalCommand.  Printed text is a sequence of  *)
(* characters; endl is a newline.                                          *)
(***************************************************************************)
\* the labels printProduct writes before the fields
labels ==
  [uniqId |->
     <<"U", "n", "i", "q", Space, "I", "d", ":", Space>>,
   productName |->
     <<"P", "r", "o", "d", "u", "c", "t", Space, "N", "a", "m", "e", ":",
       Space>>,
   brandName |->
     <<"B", "r", "a", "n", "d", Space, "N", "a", "m", "e", ":", Space>>,
   category |->
     <<"C", "a", "t", "e", "g", "o", "r", "y", ":", Space>>,
   listPrice |->
     <<"L", "i", "s", "t", Space, "P", "r", "i", "c", "e", ":", Space>>,
   sellingPrice |->
     <<"S", "e", "l", "l", "i", "n", "g", Space, "P", "r", "i", "c", "e",
       ":", Space>>,
   quantity |->
     <<"Q", "u", "a", "n", "t", "i", "t", "y", ":", Space>>,
   asin |->
     <<"A", "s", "i", "n", ":", Space>>,
   modelNumber |->
     <<"M", "o", "d", "e", "l", Space, "N", "u", "m", "b", "e", "r", ":",
       Space>>,
   productDescription |->
     <<"P", "r", "o", "d", "u", "c", "t", Space, "D", "e", "s", "c", "r",
       "i", "p", "t", "i", "o", "n", ":">>,
   stock |->
     <<"S", "t", "o", "c", "k", ":", Space>>]

\* the texts bootStrap writes, and the name of the data set file
bootText ==
  [ welcome |->
     <<Newline, Space, "W", "e", "l", "c", "o", "m", "e", Space, "t", "o",
       Space, "A", "m", "a", "z", "o", "n", Space, "I", "n", "v", "e", "n",
       "t", "o", "r", "y", Space, "Q", "u", "e", "r", "y", Space, "S", "y",
       "s", "t", "e", "m">>,
   hint |->
     <<Space, "e", "n", "t", "e", "r", Space, ":", "q", "u", "i", "t",
       Space, "t", "o", Space, "e", "x", "i", "t", ".", Space, "o", "r",
       Space, ":", "h", "e", "l", "p", Space, "t", "o", Space, "l", "i",
       "s", "t", Space, "s", "u", "p", "p", "o", "r", "t", "e", "d", Space,
       "c", "o", "m", "m", "a", "n", "d", "s", ".">>,
   csv |->
     <<"m", "a", "r", "k", "e", "t", "i", "n", "g", "_", "s", "a", "m",
       "p", "l", "e", "_", "f", "o", "r", "_", "a", "m", "a", "z", "o",
       "n", "_", "c", "o", "m", "-", "e", "c", "o", "m", "m", "e", "r",
       "c", "e", "_", "_", "2", "0", "2", "0", "0", "1", "0", "1", "_",
       "2", "0", "2", "0", "0", "1", "3", "1", "_", "_", "1", "0", "k",
       "_", "d", "a", "t", "a", ".", "c", "s", "v">>,
   failed |->
     <<"F", "a", "i", "l", "e", "d", Space, "t", "o", Space, "l", "o", "a",
       "d", Space, "d", "a", "t", "a", "s", "e", "t", ":", Space>>,
   prompt |->
     <<Newline, ">", Space>>]

indent ==
  <<Space, Space, Space, Space>>

cmdHelp ==
  <<":", "h", "e", "l", "p">>

cmdQuit ==
  <<":", "q", "u", "i", "t">>

cmdFind ==
  <<"f", "i", "n", "d">>

cmdListInventory ==
  <<"l", "i", "s", "t", "I", "n", "v", "e", "n", "t", "o", "r", "y">>

InventoryNotFound ==
  <<"I", "n", "v", "e", "n", "t", "o", "r", "y", Space, "n", "o", "t",
    Space, "f", "o", "u", "n", "d">>

InvalidCategory ==
  <<"I", "n", "v", "a", "l", "i", "d", Space, "C", "a", "t", "e", "g", "o",
    "r", "y">>

idNameSep ==
  <<Space, "-", Space>>

CommandNotSupported ==
  <<"C", "o", "m", "m", "a", "n", "d", Space, "n", "o", "t", Space, "s",
    "u", "p", "p", "o", "r", "t", "e", "d", ".", Space, "E", "n", "t", "e",
    "r", Space, ":", "h", "e", "l", "p", Space, "f", "o", "r", Space, "l",
    "i", "s", "t", Space, "o", "f", Space, "s", "u", "p", "p", "o", "r",
    "t", "e", "d", Space, "c", "o", "m", "m", "a", "n", "d", "s">>

prompt ==
  <<">", Space>>


\* main.cpp's own trim: the two index loops, then substr(start, end - start)
RECURSIVE trimStart(_, _)
trimStart(s, start) ==
  IF start < Len(s) /\ isspace(s[start + 1]) THEN trimStart(s, start + 1)
  ELSE start

RECURSIVE trimEnd(_, _, _)
trimEnd(s, start, end) ==
  IF end > start /\ isspace(s[end]) THEN trimEnd(s, start, end - 1) ELSE end

mainTrim(s) ==
  LET start == trimStart(s, 0)
      end == trimEnd(s, start, Len(s))
  IN  SubSeq(s, start + 1, end)

endl == <<Newline>>

\* while (iss >> w) words.push_back(w): the maximal runs of non-space
\* characters of the text from position i on; cur is the run being read
RECURSIVE wordsFrom(_, _, _)
wordsFrom(text, i, cur) ==
  IF i > Len(text) THEN (IF cur = << >> THEN << >> ELSE <<cur>>)
  ELSE IF isspace(text[i])
       THEN (IF cur = << >> THEN << >> ELSE <<cur>>)
              \o wordsFrom(text, i + 1, << >>)
       ELSE wordsFrom(text, i + 1, Append(cur, text[i]))

\* the for loop of wrapAndPrint over words[i..] with the line cur being
\* filled, and the statement after the loop: what they print
RECURSIVE wrapWords(_, _, _, _)
wrapWords(words, i, cur, lineWidth) ==
  IF i > Len(words) THEN (IF cur # << >> THEN cur \o endl ELSE << >>)
  ELSE LET word == words[i]
           started == Len(cur) > Len(indent)
       IN  IF Len(cur) + (IF started THEN 1 ELSE 0) + Len(word) > lineWidth
           THEN cur \o endl \o wrapWords(words, i + 1, indent \o word,
                                         lineWidth)
           ELSE wrapWords(words, i + 1,
                          (IF started THEN Append(cur, Space) ELSE cur)
                            \o word,
                          lineWidth)

wrapAndPrint(label, text, maxWidth) ==
  IF text = << >> THEN label \o endl
  ELSE label \o <<Newline>>
         \o wrapWords(wordsFrom(text, 1, << >>), 1, indent, maxWidth)

\* the width printProduct passes to wrapAndPrint
descriptionWidth == 100

\* what printProduct writes to cout for the product p
printProduct(p) ==
  labels.uniqId \o p.uniqId \o endl
    \o labels.productName \o p.productName \o endl
    \o labels.brandName \o p.brandName \o endl
    \o labels.category \o p.category \o endl
    \o labels.listPrice \o p.listPrice \o endl
    \o labels.sellingPrice \o p.sellingPrice \o endl
    \o labels.quantity \o p.quantity \o endl
    \o (IF p.asin # << >> THEN labels.asin \o p.asin \o endl ELSE << >>)
    \o (IF p.modelNumber # << >>
        THEN labels.modelNumber \o p.modelNumber \o endl ELSE << >>)
    \o wrapAndPrint(labels.productDescription, p.productDescription,
                    descriptionWidth)
    \o (IF p.stock # << >> THEN labels.stock \o p.stock \o endl ELSE << >>)

printHelp ==
  <<"S", "u", "p", "p", "o", "r", "t", "e", "d", Space, "l", "i", "s", "t",
    Space, "o", "f", Space, "c", "o", "m", "m", "a", "n", "d", "s", ":",
    Space>>
    \o endl
    \o <<Space, "1", ".", Space, "f", "i", "n", "d", Space, "<", "i", "n",
        "v", "e", "n", "t", "o", "r", "y", "i", "d", ">", Space, "-",
        Space, "F", "i", "n", "d", "s", Space, "i", "f", Space, "t", "h",
        "e", Space, "i", "n", "v", "e", "n", "t", "o", "r", "y", Space,
        "e", "x", "i", "s", "t", "s", ".", Space, "I", "f", Space, "e",
        "x", "i", "s", "t", "s", Comma, Space, "p", "r", "i", "n", "t",
        "s", Space, "d", "e", "t", "a", "i", "l", "s", ".", Space, "I",
        "f", Space, "n", "o", "t", Comma, Space, "p", "r", "i", "n", "t",
        "s", Space, "'", "I", "n", "v", "e", "n", "t", "o", "r", "y",
        Space, "n", "o", "t", Space, "f", "o", "u", "n", "d", "'", ".">>
    \o endl
    \o <<Space, "2", ".", Space, "l", "i", "s", "t", "I", "n", "v", "e",
        "n", "t", "o", "r", "y", Space, "<", "c", "a", "t", "e", "g", "o",
        "r", "y", "_", "s", "t", "r", "i", "n", "g", ">", Space, "-",
        Space, "L", "i", "s", "t", "s", Space, "j", "u", "s", "t", Space,
        "t", "h", "e", Space, "i", "d", Space, "a", "n", "d", Space, "n",
        "a", "m", "e", Space, "o", "f", Space, "a", "l", "l", Space, "i",
        "n", "v", "e", "n", "t", "o", "r", "y", Space, "b", "e", "l", "o",
        "n", "g", "i", "n", "g", Space, "t", "o", Space, "t", "h", "e",
        Space, "s", "p", "e", "c", "i", "f", "i", "e", "d", Space, "c",
        "a", "t", "e", "g", "o", "r", "y", ".", Space, "I", "f", Space,
        "t", "h", "e", Space, "c", "a", "t", "e", "g", "o", "r", "y",
        Space, "d", "o", "e", "s", "n", "'", "t", Space, "e", "x", "i",
        "s", "t", "s", Comma, Space, "p", "r", "i", "n", "t", "s", Space,
        "'", "I", "n", "v", "a", "l", "i", "d", Space, "C", "a", "t", "e",
        "g", "o", "r", "y", "'", ".", Newline>>
    \o endl
    \o <<Space, "U", "s", "e", Space, ":", "q", "u", "i", "t", Space, "t",
        "o", Space, "q", "u", "i", "t", Space, "t", "h", "e", Space, "R",
        "E", "P", "L">> \o endl

\* line.rfind(word, 0) == 0
startsWith(line, word) ==
  Len(line) >= Len(word) /\ SubSeq(line, 1, Len(word)) = word

validCommand(line) ==
  \/ line = cmdHelp
  \/ startsWith(line, cmdFind)
  \/ startsWith(line, cmdListInventory)

\* line.find(' '): the 0-based position of the first space from the
\* 1-based position i on, npos when there is none
RECURSIVE findSpaceFrom(_, _)
findSpaceFrom(line, i) ==
  IF i > Len(line) THEN npos
  ELSE IF line[i] = Space THEN i - 1 ELSE findSpaceFrom(line, i + 1)

\* line.substr(pos + 1)
substrAfter(line, pos) == SubSeq(line, pos + 2, Len(line))

\* the loop of the listInventory branch over the identifiers ids[i..]
RECURSIVE listLines(_, _, _, _)
listLines(ids, i, bs, h) ==
  IF i > Len(ids) THEN << >>
  ELSE LET p == findIn(bs, h, ids[i])
       IN  (IF p # << >>
            THEN ids[i] \o idNameSep \o p[1].productName \o endl
            ELSE << >>)
             \o listLines(ids, i + 1, bs, h)

\* mutant: the argument of find is looked up as typed, untrimmed
evalCommand_untrimmed(line, bs, h, index) ==
  IF line = cmdHelp THEN printHelp
  ELSE IF startsWith(line, cmdFind)
  THEN LET pos == findSpaceFrom(line, 1)
       IN  IF pos = npos \/ pos + 1 >= Len(line)
           THEN InventoryNotFound \o endl
           ELSE LET id == substrAfter(line, pos)
                IN  IF id = << >> \/ id \notin DOMAIN h
                    THEN InventoryNotFound \o endl
                    ELSE LET p == findIn(bs, h, id)
                         IN  IF p = << >> THEN InventoryNotFound \o endl
                             ELSE printProduct(p[1])
  ELSE IF startsWith(line, cmdListInventory)
  THEN LET pos == findSpaceFrom(line, 1)
       IN  IF pos = npos \/ pos + 1 >= Len(line)
           THEN InvalidCategory \o endl
           ELSE LET category == mainTrim(substrAfter(line, pos))
                IN  IF category \notin DOMAIN index
                    THEN InvalidCategory \o endl
                    ELSE listLines(index[category], 1, bs, h)
  ELSE << >>

\* what evalCommand(line) writes to cout, with g_table holding the buckets
\* bs under the hash h and g_categoryIndex being index
evalCommand(line, bs, h, index) ==
  IF line = cmdHelp THEN printHelp
  ELSE IF startsWith(line, cmdFind)
  THEN LET pos == findSpaceFrom(line, 1)
       IN  IF pos = npos \/ pos + 1 >= Len(line)
           THEN InventoryNotFound \o endl
           ELSE LET id == mainTrim(substrAfter(line, pos))
                IN  IF id = << >> THEN InventoryNotFound \o endl
                    ELSE LET p == findIn(bs, h, id)
                         IN  IF p = << >> THEN InventoryNotFound \o endl
                             ELSE printProduct(p[1])
  ELSE IF startsWith(line, cmdListInventory)
  THEN LET pos == findSpaceFrom(line, 1)
       IN  IF pos = npos \/ pos + 1 >= Len(line)
           THEN InvalidCategory \o endl
           ELSE LET category == mainTrim(substrAfter(line, pos))
                IN  IF category \notin DOMAIN index
                    THEN InvalidCategory \o endl
                    ELSE listLines(index[category], 1, bs, h)
  ELSE << >>


\* the bucket count of the default-constructed g_table
defaultBucketCount == 1003

\* an identifier the user types that no source carries
ReplIds == LoadIds \cup {<<"X", "9">>}

ReplHashFns ==
  [ReplIds -> {0, 1}] \cup {[id \in ReplIds |-> stdHashOfId[id]]}

\* the data set: missing, empty, or the plain header with up to MaxRows rows, or
\* one described product
ReplSources ==
  {[open |-> o, text |-> << >>] : o \in BOOLEAN} \cup
  {[open |-> TRUE, text |-> fileLines(<<Header.plain>> \o rows)] :
     rows \in UNION {[1..k -> RowLines] : k \in 0..MaxRows}} \cup
  {[open |-> TRUE,
    text |-> fileLines(<<
      <<"U", "n", "i", "q", Space, "I", "d", Comma, "P", "r", "o", "d",
        "u", "c", "t", Space, "N", "a", "m", "e", Comma, "C", "a", "t",
        "e", "g", "o", "r", "y", Comma, "P", "r", "o", "d", "u", "c", "t",
        Space, "D", "e", "s", "c", "r", "i", "p", "t", "i", "o", "n",
        Comma, "S", "t", "o", "c", "k">>,
      <<"X", "2", Comma, "B", "o", "l", "t", Comma, "A", Comma, "z", "i",
        "n", "c", Space, Space, "b", "o", "l", "t", Comma, "T", "R", "U",
        "E">>>>)]}

\* the lines the user types at the prompt, :quit aside
CommandLines ==
  {cmdHelp,
   <<"f", "i", "n", "d", Space, "X", "1">>,
   <<"f", "i", "n", "d", Space, Space, "X", "2", Space>>,
   <<"f", "i", "n", "d", Space, "X", "9">>,
   <<"f", "i", "n", "d">>,
   <<"f", "i", "n", "d", Space>>,
   <<"f", "i", "n", "d", Space, Space, Space>>,
   <<"f", "i", "n", "d", "X", "1">>,
   <<"l", "i", "s", "t", "I", "n", "v", "e", "n", "t", "o", "r", "y",
     Space, "A">>,
   <<"l", "i", "s", "t", "I", "n", "v", "e", "n", "t", "o", "r", "y",
     Space, Space, "B", Space>>,
   <<"l", "i", "s", "t", "I", "n", "v", "e", "n", "t", "o", "r", "y",
     Space, "C">>,
   <<"l", "i", "s", "t", "I", "n", "v", "e", "n", "t", "o", "r", "y",
     Space, "N", "A">>,
   <<"l", "i", "s", "t", "I", "n", "v", "e", "n", "t", "o", "r", "y">>,
   <<"l", "i", "s", "t", "I", "n", "v", "e", "n", "t", "o", "r", "y",
     Space>>,
   <<"l", "i", "s", "t", "I", "n", "v", "e", "n", "t", "o", "r", "y",
     Space, Space>>,
   <<"l", "i", "s", "t", Space, "A">>,
   << >>}

(***************************************************************************)
(* main: bootStrap loads the data set into g_table and g_categoryIndex     *)
(* (the steps of loadCsv above), then the loop reads one line per          *)
(* iteration.  loc.line is the line read last and out the text written to  *)
(* cout by the step.                                                       *)
(***************************************************************************)
InitRepl ==
  /\ \E h \in ReplHashFns : HashTable(defaultBucketCount, h)
  /\ categoryIndex = << >>
  /\ fn = "loadCsv"
  /\ arg \in ReplSources
  /\ loc = [pc |-> "open", in |-> << >>, H |-> [idx |-> << >>],
            rec |-> << >>, count |-> 0]
  /\ out = << >>
  /\ seen = [calls |-> 0, in |-> << >>, ok |-> TRUE, midQuote |-> FALSE]

\* bootStrap, from the return of loadCsv on, with all it has written
bootStrap ==
  /\ returns("loadCsv")
  /\ ~fault
  /\ fn' = "main"
  /\ loc' = [pc |-> "prompt", line |-> << >>, eof |-> FALSE]
  /\ out' = <<bootText.welcome \o endl \o bootText.hint \o endl
                \o (IF out[1] THEN << >>
                    ELSE bootText.failed \o bootText.csv \o endl)
                \o bootText.prompt>>
  /\ UNCHANGED <<arg, seen, categoryIndex>>
  /\ UNCHANGED tableVars

prompting == fn = "main" /\ loc.pc = "prompt"

\* one iteration of the loop of main on the line read from cin; the line
\* ends with a newline, or with the end of the input (getline then sets
\* eofbit, kept in loc.eof).  An empty line is read only when a newline
\* ends it: with no character left getline fails (MainEof)
MainCommand ==
  \E line \in CommandLines, atEnd \in BOOLEAN :
    /\ prompting
    /\ ~loc.eof
    /\ line # cmdQuit
    /\ atEnd => line # << >>
    /\ loc' = [pc |-> "prompt", line |-> line, eof |-> atEnd]
    /\ out' = <<(IF validCommand(line)
                 THEN evalCommand(line, buckets_, hash, categoryIndex)
                 ELSE CommandNotSupported \o endl)
                  \o prompt>>
    /\ UNCHANGED <<fn, arg, seen, categoryIndex>>
    /\ UNCHANGED tableVars

\* the loop ends on :quit
MainQuit ==
  \E atEnd \in BOOLEAN :
    /\ prompting
    /\ ~loc.eof
    /\ loc' = [pc |-> "exit", line |-> cmdQuit, eof |-> atEnd]
    /\ out' = << << >> >>
    /\ UNCHANGED <<fn, arg, seen, categoryIndex>>
    /\ UNCHANGED tableVars

\* the loop ends when getline fails, at the end of the input: nothing is
\* written.  With eofbit set by the last read the line is left as it is,
\* otherwise getline has erased it
MainEof ==
  /\ prompting
  /\ loc' = [pc |-> "exit", line |-> IF loc.eof THEN loc.line ELSE << >>,
             eof |-> TRUE]
  /\ out' = << << >> >>
  /\ UNCHANGED <<fn, arg, seen, categoryIndex>>
  /\ UNCHANGED tableVars

NextRepl ==
  \/ LoadNoFile
  \/ LoadNoHeader
  \/ LoadHeader
  \/ LoadEnd
  \/ LoadSkipEmpty
  \/ LoadSkipNoId
  \/ LoadInsert
  \/ bootStrap
  \/ MainCommand
  \/ MainQuit
  \/ MainEof

SpecRepl == InitRepl /\ [][NextRepl]_vars

\* a line of the loop has just been handled
handled == fn = "main" /\ loc.pc = "prompt" /\ out # << >> /\ loc.line # << >>

\* the text after the first space of the line: <<text>>, or << >> when the
\* line has no space or nothing after it
C29_Argument(line) ==
  LET spaces == {i \in 1..Len(line) : line[i] = Space}
  IN  IF spaces = {} THEN << >>
      ELSE LET first == CHOOSE i \in spaces : \A j \in spaces : i <= j
           IN  IF first = Len(line) THEN << >>
               ELSE <<SubSeq(line, first + 1, Len(line))>>

\* the (key, value) pairs g_table holds
C29_Stored ==
  UNION {{<<buckets_[j][i].key, buckets_[j][i].value>> :
            i \in 1..Len(buckets_[j])} : j \in 1..Len(buckets_)}

(***************************************************************************)
(* C29: for a command line find <id>, the REPL prints the details of the   *)
(* product exactly when the whitespace-trimmed <id> is a key of the loaded *)
(* table, and prints 'Inventory not found' in every other case (unknown    *)
(* id, empty id, no argument).                                             *)
(***************************************************************************)
C29_Find ==
  (handled /\ startsWith(loc.line, cmdFind)) =>
    LET a == C29_Argument(loc.line)
        id == IF a = << >> THEN << >> ELSE trim(a[1])
    IN  IF a # << >> /\ id \in {pr[1] : pr \in C29_Stored}
        THEN \E pr \in C29_Stored :
               /\ pr[1] = id
               /\ out[1] = printProduct(pr[2]) \o prompt
        ELSE out[1] = InventoryNotFound \o endl \o prompt

\* "find  X2 " on a table holding X2 prints the details of X2
C29_Witness ==
  /\ handled
  /\ loc.line = <<"f", "i", "n", "d", Space, Space, "X", "2", Space>>
  /\ <<"X", "2">> \in {pr[1] : pr \in C29_Stored}
  /\ Len(out[1]) > Len(labels.uniqId) + 2
  /\ SubSeq(out[1], 1, Len(labels.uniqId) + 2)
       = labels.uniqId \o <<"X", "2">>

\* the products of the table that have the category c in their list
C30_Belonging(c) ==
  {pr \in C29_Stored :
     \E j \in 1..Len(pr[2].categories) : pr[2].categories[j] = c}

\* one line per product belonging to c, in the order of the list ids
RECURSIVE C30_Lines(_, _, _, _)
C30_Lines(ids, i, c, shown) ==
  IF i > Len(ids) THEN << >>
  ELSE LET here == {pr \in C30_Belonging(c) : pr[1] = ids[i]}
       IN  IF here = {} \/ ids[i] \in shown
           THEN C30_Lines(ids, i + 1, c, shown)
           ELSE LET pr == CHOOSE x \in here : TRUE
                IN  pr[1] \o idNameSep \o pr[2].productName \o endl
                      \o C30_Lines(ids, i + 1, c, shown \cup {ids[i]})

(***************************************************************************)
(* C30: for a command line listInventory <category>, the REPL prints       *)
(* 'Invalid Category' exactly when the whitespace-trimmed category is not  *)
(* a key of the category index or no argument is given; otherwise it       *)
(* prints one "id - name" line per product belonging to the category, for  *)
(* all of them, in the order of the category's list.                       *)
(***************************************************************************)
C30_ListInventory ==
  (handled /\ startsWith(loc.line, cmdListInventory)) =>
    LET a == C29_Argument(loc.line)
        c == IF a = << >> THEN << >> ELSE trim(a[1])
    IN  IF a = << >> \/ c \notin DOMAIN categoryIndex
        THEN out[1] = InvalidCategory \o endl \o prompt
        ELSE /\ out[1] = C30_Lines(categoryIndex[c], 1, c, {}) \o prompt
             /\ \A pr \in C30_Belonging(c) :
                  \E i \in 1..Len(categoryIndex[c]) :
                    categoryIndex[c][i] = pr[1]

(***************************************************************************)
(* C31: find(k) never mutates the table: size, bucket count and every      *)
(* stored key/value pair, chain by chain, are the same after the call as   *)
(* before, whether or not k is present.                                    *)
(***************************************************************************)
C31_FindStep ==
  returned("find")' =>
    /\ size_' = size_
    /\ bucketCount' = bucketCount
    /\ pairsOf(buckets_') = pairsOf(buckets_)
    /\ buckets_' = buckets_

C31_FindPure == [][C31_FindStep]_vars

\* a find that hit, behind another node of its chain, in a grown table
\* that has seen an erase
C31_Witness ==
  /\ returned("find")
  /\ last.ret
  /\ erased
  /\ bucketCount > MaxInitBuckets
  /\ chainPos(buckets_[indexFor(hash, last.key, bucketCount)],
              last.key, 1) >= 2

\* no column of the header line carries the name within the cells of the
\* record: the name is absent from the header, or the row is too short
C32_Missing(rec, name) ==
  LET hdr == parseCsvLine(C14_Lines(arg.text)[1])
      row == parseCsvLine(rec)
  IN  ~\E i \in 1..Len(hdr) : trim(hdr[i]) = name /\ i <= Len(row)

\* the header line of the source names no Uniq Id column
C32_NoIdColumn ==
  /\ arg.open
  /\ arg.text # << >>
  /\ LET hdr == parseCsvLine(C14_Lines(arg.text)[1])
     IN  \A i \in 1..Len(hdr) : trim(hdr[i]) # col.uniqId

\* the record just read was stored: each field whose column is missing is
\* empty in the stored product (the category list of an empty Category
\* field is [NA])
C32_Step ==
  (/\ fn = "loadCsv"
   /\ seen'.calls = seen.calls + 1
   /\ seen'.ok
   /\ ~fault'
   /\ C20_Field(loc'.rec, col.uniqId) # << >>) =>
    LET rec == loc'.rec
        held == findIn(buckets_', hash, C20_Field(rec, col.uniqId))
        p == held[1]
    IN  /\ held # << >>
        /\ C32_Missing(rec, col.productName) => p.productName = << >>
        /\ C32_Missing(rec, col.brandName) => p.brandName = << >>
        /\ C32_Missing(rec, col.category) => p.categories = <<NA>>
        /\ C32_Missing(rec, col.listPrice) => p.listPrice = << >>
        /\ C32_Missing(rec, col.sellingPrice) => p.sellingPrice = << >>
        /\ C32_Missing(rec, col.quantity) => p.quantity = << >>
        /\ C32_Missing(rec, col.asin) => p.asin = << >>
        /\ C32_Missing(rec, col.modelNumber) => p.modelNumber = << >>
        /\ (/\ C32_Missing(rec, col.productDescription)
            /\ C32_Missing(rec, col.aboutProduct))
           => p.productDescription = << >>
        /\ C32_Missing(rec, col.stock) => p.stock = << >>

\* a source without a Uniq Id column loads nothing, and loadCsv returns true
C32_NothingLoaded ==
  (fn = "loadCsv" /\ C32_NoIdColumn) =>
    /\ ~fault
    /\ size_ = 0
    /\ pairsOf(buckets_) = {}
    /\ categoryIndex = << >>
    /\ returns("loadCsv") => out = <<TRUE>>

(***************************************************************************)
(* C32: a column name that is absent from the header yields the empty      *)
(* string for that field in every record, without error, and so does a row *)
(* shorter than the column's index; when the header has no Uniq Id column, *)
(* loadCsv returns true and inserts nothing into the table or the category *)
(* index.                                                                  *)
(***************************************************************************)
C32_AbsentIsEmpty == []C32_NothingLoaded /\ [][C32_Step]_vars

\* the one-cell row X2 under the plain header is stored with an empty name
\* and brand and the category list [NA]
C32_Witness ==
  /\ returns("loadCsv")
  /\ arg.text = fileLines(<<Header.plain, Row.short>>)
  /\ \E pr \in pairsOf(buckets_) :
       /\ pr[1] = <<"X", "2">>
       /\ pr[2].productName = << >>
       /\ pr[2].brandName = << >>
       /\ pr[2].categories = <<NA>>

(***************************************************************************)
(* C33: across any sequence of operations the bucket count never decreases *)
(* and changes only inside an insert that creates a new entry: find, erase *)
(* (even down to an empty table) and an insert that overwrites a stored    *)
(* key leave bucketCount() unchanged.                                      *)
(***************************************************************************)
C33_Step ==
  /\ bucketCount' >= bucketCount
  /\ bucketCount' # bucketCount =>
       /\ returned("insert")'
       /\ last'.ret
       /\ last'.key \notin keysOf(buckets_)
  /\ (last'.op \in {"find", "erase"} \/ (last'.op = "insert" /\ ~last'.ret))
       => bucketCount' = bucketCount

C33_BucketCountMonotone == [][C33_Step]_vars

\* a grown table erased down to no entry keeps its buckets
C33_Witness ==
  /\ returned("erase")
  /\ last.ret
  /\ size = 0
  /\ bucketCount > 2 * MaxInitBuckets + 1

(***************************************************************************)
(* C34: in every state between operations, each stored entry lies in the   *)
(* chain of bucket hash(key) mod bucketCount, no key occurs in more than   *)
(* one node of the whole table, and size() is the total number of nodes    *)
(* over all chains; in particular right after a growth.                    *)
(***************************************************************************)
C34_WellFormed ==
  /\ \A i \in 1..bucketCount :
       \A j \in 1..Len(buckets_[i]) :
         (hash[buckets_[i][j].key] % bucketCount) + 1 = i
  /\ \A i1, i2 \in 1..bucketCount :
       \A j1 \in 1..Len(buckets_[i1]), j2 \in 1..Len(buckets_[i2]) :
         buckets_[i1][j1].key = buckets_[i2][j2].key => (i1 = i2 /\ j1 = j2)
  /\ size = nodeCount(buckets_)

\* right after the growth from three buckets to seven, two keys in a chain
C34_Witness ==
  /\ returned("insert")
  /\ last.ret
  /\ size = 3
  /\ bucketCount = 7
  /\ \E i \in 1..bucketCount : Len(buckets_[i]) >= 2

(***************************************************************************)
(* C35: the two quote scanners agree on every string: isBalancedQuotes(s)  *)
(* is true exactly when the scan of parseCsvLine over s ends outside       *)
(* quoted state, so a record that is balanced for readRecord is never      *)
(* split by parseCsvLine with a quoted field still open.                   *)
(***************************************************************************)
C35_ScannersAgree ==
  returns("parseCsvLine") =>
    /\ isBalancedQuotes(arg) <=> ~loc.inQuotes
    /\ isBalancedQuotes(arg) => ~parseRun(arg, parseStart).inQuotes

\* "a""",a: an escaped quote inside a quoted field, a closing quote, then a
\* plain field: balanced, and parsed to the end outside quoted state
C35_Witness ==
  /\ returns("parseCsvLine")
  /\ arg = <<Quote, "a", Quote, Quote, Quote, Comma>>
  /\ isBalancedQuotes(arg)
  /\ ~loc.inQuotes
  /\ out[1] = << <<"a", Quote>>, << >> >>

(***************************************************************************)
(* loadCsv called a second time with the table and index the first call    *)
(* has filled: arg.before keeps the table and the index as they were when  *)
(* the running call began.  The first source is missing, empty, a plain    *)
(* header with up to MaxRows record lines (one of them an empty line, one  *)
(* with an empty line inside a quoted field), or the described header with *)
(* up to MaxRows record lines.                                             *)
(***************************************************************************)
ReloadTexts ==
  {<< >>} \cup
  {fileLines(<<Header.plain>> \o rows) :
     rows \in UNION {[1..k -> {Row.widget, Row.again, Row.noId, Row.empty,
                               Row.gap}] : k \in 0..MaxRows}} \cup
  {fileLines(<<Header.described>> \o rows) :
     rows \in UNION {[1..k -> {Row.both, Row.aboutOnly, Row.blankDescription,
                               Row.neither, Row.short}] : k \in 0..MaxRows}}

\* the sources of the second call
AgainSources ==
  {[open |-> FALSE, text |-> << >>],
   [open |-> TRUE, text |-> << >>],
   [open |-> TRUE, text |-> fileLines(<<Header.plain, Row.quoted>>)]}

InitReload ==
  /\ \E n \in 0..MaxInitBuckets, h \in LoadHashFns : HashTable(n, h)
  /\ categoryIndex = << >>
  /\ fn = "loadCsv"
  /\ \E o \in BOOLEAN, t \in ReloadTexts :
       /\ ~o => t = << >>
       /\ arg = [open |-> o, text |-> t, call |-> 1,
                 before |-> <<buckets_, size_, categoryIndex>>]
  /\ loc = [pc |-> "open", in |-> << >>, H |-> [idx |-> << >>],
            rec |-> << >>, count |-> 0]
  /\ out = << >>
  /\ seen = [calls |-> 0, in |-> << >>, ok |-> TRUE, midQuote |-> FALSE]

\* the first call has returned; loadCsv is called with another source and
\* the same table and index
LoadAgain ==
  /\ returns("loadCsv")
  /\ ~fault
  /\ arg.call = 1
  /\ \E src \in AgainSources :
       arg' = [open |-> src.open, text |-> src.text, call |-> 2,
               before |-> <<buckets_, size_, categoryIndex>>]
  /\ loc' = [pc |-> "open", in |-> << >>, H |-> [idx |-> << >>],
             rec |-> << >>, count |-> 0]
  /\ out' = << >>
  /\ seen' = [calls |-> 0, in |-> << >>, ok |-> TRUE, midQuote |-> FALSE]
  /\ UNCHANGED <<fn, categoryIndex>>
  /\ UNCHANGED tableVars

NextReload ==
  \/ LoadNoFile
  \/ LoadNoHeader
  \/ LoadHeader
  \/ LoadEnd
  \/ LoadSkipEmpty
  \/ LoadSkipNoId
  \/ LoadInsert
  \/ LoadAgain

SpecReload == InitReload /\ [][NextReload]_vars

(***************************************************************************)
(* C36: whenever loadCsv returns false, the table and the category index   *)
(* passed to it are exactly as they were before the call.                  *)
(***************************************************************************)
C36_FalseKeepsAll ==
  (returns("loadCsv") /\ out = <<FALSE>>) =>
    <<buckets_, size_, categoryIndex>> = arg.before

\* the second call, on a table of two entries, has met a file with no line
C36_Witness ==
  /\ returns("loadCsv")
  /\ out = <<FALSE>>
  /\ arg.call = 2
  /\ arg.open
  /\ size = 2
  /\ DOMAIN categoryIndex = {<<"A">>, <<"B">>}

(***************************************************************************)
(* C37: after a load into an empty table and index the two cover each      *)
(* other: every identifier of every category list is findable in the       *)
(* table, the identifier of every entity of the table occurs in the list   *)
(* of each category of the entity's category list, and no category list is *)
(* empty.                                                                  *)
(***************************************************************************)
C37_CoverEachOther ==
  returns("loadCsv") =>
    /\ \A c \in DOMAIN categoryIndex :
         /\ categoryIndex[c] # << >>
         /\ \A i \in 1..Len(categoryIndex[c]) :
              /\ findIn(buckets_, hash, categoryIndex[c][i]) # << >>
              /\ categoryIndex[c][i] \in keysOf(buckets_)
    /\ \A pr \in pairsOf(buckets_) :
         \A j \in 1..Len(pr[2].categories) :
           /\ pr[2].categories[j] \in DOMAIN categoryIndex
           /\ \E i \in 1..Len(categoryIndex[pr[2].categories[j]]) :
                categoryIndex[pr[2].categories[j]][i] = pr[1]

\* two entities loaded from two records, both listed under category B
C37_Witness ==
  /\ returns("loadCsv")
  /\ out = <<TRUE>>
  /\ size = 2
  /\ loc.count = 2
  /\ <<"B">> \in DOMAIN categoryIndex
  /\ Len(categoryIndex[<<"B">>]) = 2
  /\ \A pr \in pairsOf(buckets_) :
       \E j \in 1..Len(pr[2].categories) : pr[2].categories[j] = <<"B">>

(***************************************************************************)
(* C38: sanitize and cleanPrice are idempotent: sanitize(sanitize(s)) =    *)
(* sanitize(s) and cleanPrice(cleanPrice(s)) = cleanPrice(s) for every s.  *)
(***************************************************************************)
C38_Idempotent ==
  /\ returns("sanitize") =>
       /\ out[1] = sanitize(arg)
       /\ sanitize(out[1]) = out[1]
  /\ returns("cleanPrice") =>
       /\ out[1] = cleanPrice(arg)
       /\ cleanPrice(out[1]) = out[1]

\* a form feed, a space and a newline between two letters, behind a
\* leading space: sanitize has changed the text, and changes it no more
C38_Witness ==
  /\ returns("sanitize")
  /\ arg = <<" ", "a", "\f", "\n", "b">>
  /\ out[1] = <<"a", " ", "b">>
  /\ sanitize(out[1]) = out[1]

(***************************************************************************)
(* C39: the stored product description is the sanitized Product            *)
(* Description field when that is non-empty, and otherwise the sanitized   *)
(* About Product field (empty when both are empty or absent); About        *)
(* Product is never used when Product Description is non-empty.            *)
(***************************************************************************)
C39_Step ==
  (/\ fn = "loadCsv"
   /\ seen'.calls = seen.calls + 1
   /\ seen'.ok
   /\ ~fault'
   /\ C20_Field(loc'.rec, col.uniqId) # << >>) =>
    LET held == findIn(buckets_', hash, C20_Field(loc'.rec, col.uniqId))
        description == C20_Field(loc'.rec, col.productDescription)
        about == C20_Field(loc'.rec, col.aboutProduct)
    IN  /\ held # << >>
        /\ description # << >> => held[1].productDescription = description
        /\ description = << >> => held[1].productDescription = about

C39_DescriptionFallback == [][C39_Step]_vars

\* X1 keeps its description "d e" although it has an About Product field,
\* and X2, whose description is blank, takes its About Product field
C39_Witness ==
  /\ returns("loadCsv")
  /\ arg.text = fileLines(<<Header.described, Row.both, Row.blankDescription>>)
  /\ \E pr \in pairsOf(buckets_) :
       pr[1] = <<"X", "1">> /\ pr[2].productDescription = <<"d", " ", "e">>
  /\ \E pr \in pairsOf(buckets_) :
       pr[1] = <<"X", "2">> /\ pr[2].productDescription = <<"a">>

(***************************************************************************)
(* C40: empty physical lines between records are skipped by the loader:    *)
(* the iteration that reads one leaves the table, the category index and   *)
(* the header map as they were and consumes that line only, so that the    *)
(* table and the index after the load are those of the non-empty records   *)
(* alone; an empty physical line inside an open quoted field is kept, the  *)
(* record read being its physical lines joined by newlines.                *)
(***************************************************************************)
\* the records of R that are not empty lines
C40_Kept(R) == SelectSeq(R, LAMBDA r : r # << >>)

C40_Step ==
  (/\ fn = "loadCsv"
   /\ seen'.calls = seen.calls + 1
   /\ seen'.ok
   /\ loc'.rec = << >>) =>
    /\ buckets_' = buckets_
    /\ size_' = size_
    /\ categoryIndex' = categoryIndex
    /\ out' = out
    /\ loc'.H = loc.H
    /\ loc'.count = loc.count
    /\ loc.in = <<Newline>> \o loc'.in

\* the load gives what the non-empty records alone give
C40_AsIfAbsent ==
  (returns("loadCsv") /\ out = <<TRUE>> /\ arg.call = 1 /\ ~fault) =>
    LET R == C40_Kept(C26_Records(Tail(C14_Lines(arg.text))))
        id(i) == C20_Field(R[i], col.uniqId)
        ids == {id(i) : i \in 1..Len(R)} \ {<< >>}
    IN  /\ size = Cardinality(ids)
        /\ keysOf(buckets_) = ids
        /\ \A c \in DOMAIN categoryIndex :
             categoryIndex[c] = C27_ListFor(R, c)
        /\ \A i \in 1..Len(R) :
             (id(i) # << >> /\ \A j \in (i + 1)..Len(R) : id(j) # id(i)) =>
               LET held == findIn(buckets_, hash, id(i))
               IN  /\ held # << >>
                   /\ held[1].productName = C20_Field(R[i], col.productName)

\* the n-th record read is the n-th logical record of the source, the empty
\* lines inside its quoted fields included
C40_KeptInQuotes ==
  (fn = "loadCsv" /\ seen.calls > 0 /\ seen.ok) =>
    LET R == C26_Records(Tail(C14_Lines(arg.text)))
    IN  /\ seen.calls <= Len(R)
        /\ loc.rec = R[seen.calls]

C40_EmptyLines ==
  /\ [](C40_AsIfAbsent /\ C40_KeptInQuotes)
  /\ [][C40_Step]_vars

\* an empty line after the header, then X2's record whose quoted name holds
\* an empty line: the record read keeps both newlines, X2 is stored and
\* listed under B
C40_Witness ==
  /\ returns("loadCsv")
  /\ arg.text = fileLines(<<Header.plain, Row.empty, Row.gap>>)
  /\ seen.calls = 3
  /\ size = 1
  /\ \E pr \in pairsOf(buckets_) :
       /\ pr[1] = <<"X", "2">>
       /\ pr[2].productName = <<"W", "i", "d", " ", "g", "e", "t">>
  /\ categoryIndex = (<<"B">> :> << <<"X", "2">> >>)
====
